---- MODULE Spec2Model ----
(***************************************************************************)
(* A model of termwiz's escape-sequence parser (escape/parser/mod.rs) and  *)
(* of its renderer for legacy Windows consoles (render/windows.rs).        *)
(*                                                                         *)
(* Parser: the Parser struct owns one vte state machine.  parse,           *)
(* parse_first and parse_first_as_vec feed it one byte at a time; the      *)
(* state machine calls back into the Performer, which turns each hook      *)
(* into Action values for the caller's sink.  The vte crate is not part of *)
(* the sources: its table is modelled from section 4.1 of the              *)
(* specification (the VT500 state diagram it names).                       *)
(***************************************************************************)
EXTENDS Integers, Sequences, FiniteSets, TLC

VARIABLES
    sm,         \* Parser.state_machine of the parser under test
    call,       \* the Parser method being executed, "idle" between calls
    idx,        \* parse_first / parse_first_as_vec: the loop's enumerate() index
    fedByte,    \* the byte the last loop iteration passed to advance (-1: none)
    emitted,    \* the Actions the Performer handed to its callback for that byte
    first,      \* parse_first: the RefCell holding the first action
    first_idx,  \* parse_first / parse_first_as_vec: index recorded at the break
    actions,    \* parse_first_as_vec: the Vec collecting actions
    ret,        \* the value the last finished call returned
    hist,       \* the calls finished on this parser before the current (or last) one
    resumed,    \* the current (or last) call began inside an unfinished sequence
    budget,     \* bytes the escape sequence being fed may still take (model bound)
    oneShot,    \* state machine of a second Parser, fed the same bytes by one parse call
    oneEmitted, \* the Actions that single parse call delivered for the last byte
    oneFed,     \* bytes of the current call's input it has taken
    oneEarlier, \* fresh parser, parse_first calls only: it delivered an Action for
                \* a byte of an earlier call
    oneBefore,  \* parse_first*: Actions it delivered for this call's bytes before
                \* the last one (counted up to 2)
    oneCount,   \* parse_first*: Actions it delivered for this call's bytes so far
                \* (counted up to 2)
    dcsOpen     \* the parse stream holds a DeviceControl Enter not yet closed by an Exit

parserVars == <<sm, call, idx, fedByte, emitted, first, first_idx, actions, ret,
                hist, resumed, budget, oneShot, oneEmitted, oneFed, oneEarlier,
                oneBefore, oneCount, dcsOpen>>

VARIABLES
    current_attr, \* WindowsConsoleRenderer.current_attr
    console,      \* the console: buffer size, cursor, viewport, unflushed bytes
    rcall,        \* "idle", or "render" inside a render_to call
    changes,      \* the changes the current (or last) render_to call has processed
    log,          \* the console calls the current (or last) render_to call has made
    result,       \* what the last render_to call returned: "none", "ok", "err"
    failed,       \* where in log the call that failed is, 0 when none has
    left          \* how many more changes this renderer is given

renderVars == <<current_attr, console, rcall, changes, log, result, failed, left>>

vars == <<parserVars, renderVars>>

----------------------------------------------------------------------------
(* Bounds of the model *)

\* longest escape sequence (or multi-byte character) fed, in bytes
MaxSeq == 4
\* longest OSC payload fed, in bytes
MaxOsc == 2
\* longest input of one parse_first or parse_first_as_vec call, in bytes
MaxLen == 4

(* Limits of the state machine (specification section 6) *)
MAX_PARAMS == 16
MAX_INTERMEDIATES == 2

----------------------------------------------------------------------------
(* Bytes *)

Byte == 0..255

ESC == 27
BEL == 7
CAN == 24
SUB == 26
DEL == 127
ST == 156
SEMI == 59
REPLACEMENT == 65533

IsC0(b) == b \in (0..23) \cup {25} \cup (28..31)
IsC1(b) == b \in 128..159

IsHigh(b) == b \in 160..255

States ==
    {"Ground", "Escape", "EscapeIntermediate", "CsiEntry", "CsiParam",
     "CsiIntermediate", "CsiIgnore", "OscString", "DcsEntry", "DcsParam",
     "DcsIntermediate", "DcsPassthrough", "DcsIgnore", "SosPmApcString"}

NewStateMachine ==
    [state |-> "Ground", params |-> <<>>, param |-> 0, intermediates |-> <<>>,
     ignoring |-> FALSE, osc |-> <<>>, utf8need |-> 0, utf8acc |-> 0]

----------------------------------------------------------------------------
(* The state table: the transition action and the next state for a byte.  *)

T(act, next) == [act |-> act, next |-> next]

EscapeChange(g) ==
    IF IsC0(g) THEN T("execute", "Escape")
    ELSE IF g = DEL THEN T("ignore", "Escape")
    ELSE IF g \in 32..47 THEN T("collect", "EscapeIntermediate")
    ELSE IF g = 91 THEN T("none", "CsiEntry")
    ELSE IF g = 93 THEN T("none", "OscString")
    ELSE IF g = 80 THEN T("none", "DcsEntry")
    ELSE IF g \in {88, 94, 95} THEN T("none", "SosPmApcString")
    ELSE T("esc_dispatch", "Ground")

EscapeIntermediateChange(g) ==
    IF IsC0(g) THEN T("execute", "EscapeIntermediate")
    ELSE IF g = DEL THEN T("ignore", "EscapeIntermediate")
    ELSE IF g \in 32..47 THEN T("collect", "EscapeIntermediate")
    ELSE T("esc_dispatch", "Ground")

CsiEntryChange(g) ==
    IF IsC0(g) THEN T("execute", "CsiEntry")
    ELSE IF g = DEL THEN T("ignore", "CsiEntry")
    ELSE IF g \in 32..47 THEN T("collect", "CsiIntermediate")
    ELSE IF g = 58 THEN T("none", "CsiIgnore")
    ELSE IF g \in (48..57) \cup {SEMI} THEN T("param", "CsiParam")
    ELSE IF g \in 60..63 THEN T("collect", "CsiParam")
    ELSE T("csi_dispatch", "Ground")

CsiParamChange(g) ==
    IF IsC0(g) THEN T("execute", "CsiParam")
    ELSE IF g = DEL THEN T("ignore", "CsiParam")
    ELSE IF g \in (48..57) \cup {SEMI} THEN T("param", "CsiParam")
    ELSE IF g \in {58} \cup (60..63) THEN T("none", "CsiIgnore")
    ELSE IF g \in 32..47 THEN T("collect", "CsiIntermediate")
    ELSE T("csi_dispatch", "Ground")

CsiIntermediateChange(g) ==
    IF IsC0(g) THEN T("execute", "CsiIntermediate")
    ELSE IF g = DEL THEN T("ignore", "CsiIntermediate")
    ELSE IF g \in 32..47 THEN T("collect", "CsiIntermediate")
    ELSE IF g \in 48..63 THEN T("none", "CsiIgnore")
    ELSE T("csi_dispatch", "Ground")

\* CsiIgnore is entered by a malformed sequence (nothing is dispatched) or by an
\* overflow of the intermediates (the flag is set and the final byte dispatches).
CsiIgnoreChange(g, ignoring) ==
    IF IsC0(g) THEN T("execute", "CsiIgnore")
    ELSE IF g \in (32..63) \cup {DEL} THEN T("ignore", "CsiIgnore")
    ELSE IF ignoring THEN T("csi_dispatch", "Ground")
    ELSE T("none", "Ground")

\* The payload of an OSC is arbitrary bytes: 0xA0-0xFF are part of it.
OscStringChange(g) ==
    IF g = BEL THEN T("none", "Ground")
    ELSE IF IsC0(g) THEN T("ignore", "OscString")
    ELSE T("osc_put", "OscString")

DcsEntryChange(g) ==
    IF IsC0(g) \/ g = DEL THEN T("ignore", "DcsEntry")
    ELSE IF g \in 32..47 THEN T("collect", "DcsIntermediate")
    ELSE IF g = 58 THEN T("none", "DcsIgnore")
    ELSE IF g \in (48..57) \cup {SEMI} THEN T("param", "DcsParam")
    ELSE IF g \in 60..63 THEN T("collect", "DcsParam")
    ELSE T("none", "DcsPassthrough")

DcsParamChange(g) ==
    IF IsC0(g) \/ g = DEL THEN T("ignore", "DcsParam")
    ELSE IF g \in (48..57) \cup {SEMI} THEN T("param", "DcsParam")
    ELSE IF g \in {58} \cup (60..63) THEN T("none", "DcsIgnore")
    ELSE IF g \in 32..47 THEN T("collect", "DcsIntermediate")
    ELSE T("none", "DcsPassthrough")

DcsIntermediateChange(g) ==
    IF IsC0(g) \/ g = DEL THEN T("ignore", "DcsIntermediate")
    ELSE IF g \in 32..47 THEN T("collect", "DcsIntermediate")
    ELSE IF g \in 48..63 THEN T("none", "DcsIgnore")
    ELSE T("none", "DcsPassthrough")

DcsPassthroughChange(g) ==
    IF g = DEL THEN T("ignore", "DcsPassthrough")
    ELSE T("put", "DcsPassthrough")

\* Anywhere: CAN and SUB abort a sequence and are executed, ESC starts a new
\* one, ST (0x9C) ends a string, every other C1 byte is executed.
AnywhereChange(b) ==
    IF b \in {CAN, SUB} THEN T("execute", "Ground")
    ELSE IF b = ESC THEN T("none", "Escape")
    ELSE IF b = ST THEN T("none", "Ground")
    ELSE T("execute", "Ground")

IsAnywhere(b) == b \in {CAN, SUB, ESC} \/ IsC1(b)

\* Outside Ground and OscString the bytes 0xA0-0xFF belong to no sequence and
\* are ignored.
StateChange(s, b) ==
    IF IsAnywhere(b) THEN AnywhereChange(b)
    ELSE IF IsHigh(b) /\ s.state # "OscString" THEN T("ignore", s.state)
    ELSE CASE s.state = "Escape" -> EscapeChange(b)
           [] s.state = "EscapeIntermediate" -> EscapeIntermediateChange(b)
           [] s.state = "CsiEntry" -> CsiEntryChange(b)
           [] s.state = "CsiParam" -> CsiParamChange(b)
           [] s.state = "CsiIntermediate" -> CsiIntermediateChange(b)
           [] s.state = "CsiIgnore" -> CsiIgnoreChange(b, s.ignoring)
           [] s.state = "OscString" -> OscStringChange(b)
           [] s.state = "DcsEntry" -> DcsEntryChange(b)
           [] s.state = "DcsParam" -> DcsParamChange(b)
           [] s.state = "DcsIntermediate" -> DcsIntermediateChange(b)
           [] s.state = "DcsPassthrough" -> DcsPassthroughChange(b)
           [] s.state = "DcsIgnore" -> T("ignore", "DcsIgnore")
           [] s.state = "SosPmApcString" -> T("ignore", "SosPmApcString")


----------------------------------------------------------------------------
(* The hooks the state machine invokes on its performer *)

FinalParams(s) == Append(s.params, s.param)

RECURSIVE SplitFrom(_, _, _, _)
SplitFrom(raw, i, cur, acc) ==
    IF i > Len(raw) THEN Append(acc, cur)
    ELSE IF raw[i] = SEMI THEN SplitFrom(raw, i + 1, <<>>, Append(acc, cur))
    ELSE SplitFrom(raw, i + 1, Append(cur, raw[i]), acc)

\* The OSC payload split on ';' into byte-string fields.
OscFields(raw) == SplitFrom(raw, 1, <<>>, <<>>)

PrintHook(c) == [hook |-> "print", c |-> c]
ExecuteHook(b) == [hook |-> "execute", byte |-> b]
HookHook(s) ==
    [hook |-> "hook", params |-> FinalParams(s), intermediates |-> s.intermediates,
     ignored |-> s.ignoring]
PutHook(b) == [hook |-> "put", byte |-> b]
UnhookHook == [hook |-> "unhook"]
OscDispatchHook(s) == [hook |-> "osc_dispatch", osc |-> OscFields(s.osc)]
CsiDispatchHook(s, b) ==
    [hook |-> "csi_dispatch", params |-> FinalParams(s),
     intermediates |-> s.intermediates, ignored |-> s.ignoring, control |-> b]
EscDispatchHook(s, b) ==
    [hook |-> "esc_dispatch", params |-> FinalParams(s),
     intermediates |-> s.intermediates, ignored |-> s.ignoring, control |-> b]

----------------------------------------------------------------------------
(* The semantic actions of the state machine *)

Clear(s) ==
    [s EXCEPT !.params = <<>>, !.param = 0, !.intermediates = <<>>,
              !.ignoring = FALSE]

\* More intermediates than the buffer holds: the flag is set, nothing is stored.
Collect(s, b) ==
    IF Len(s.intermediates) = MAX_INTERMEDIATES
    THEN [s EXCEPT !.ignoring = TRUE]
    ELSE [s EXCEPT !.intermediates = Append(@, b)]

\* ';' completes a parameter (an empty one is 0); the last slot is kept for the
\* parameter the final byte completes, so a 16th ';' only sets the flag.
Param(s, b) ==
    IF b = SEMI
    THEN IF Len(s.params) = MAX_PARAMS - 1
         THEN [s EXCEPT !.ignoring = TRUE]
         ELSE [s EXCEPT !.params = Append(@, s.param), !.param = 0]
    ELSE [s EXCEPT !.param = s.param * 10 + (b - 48)]

ExitHooks(s) ==
    CASE s.state = "OscString" -> <<OscDispatchHook(s)>>
      [] s.state = "DcsPassthrough" -> <<UnhookHook>>
      [] OTHER -> <<>>

ActionHooks(s, act, b) ==
    CASE act = "execute" -> <<ExecuteHook(b)>>
      [] act = "put" -> <<PutHook(b)>>
      [] act = "csi_dispatch" -> <<CsiDispatchHook(s, b)>>
      [] act = "esc_dispatch" -> <<EscDispatchHook(s, b)>>
      [] OTHER -> <<>>

ActionState(s, act, b) ==
    CASE act = "collect" -> Collect(s, b)
      [] act = "param" -> Param(s, b)
      [] act = "osc_put" -> [s EXCEPT !.osc = Append(@, b)]
      [] OTHER -> s

\* The buffers are emptied on entry to Escape, CsiEntry, DcsEntry and OscString,
\* before anything is collected.  They are emptied as well once their content
\* has been handed to the performer or is given up (on entry to Ground, to
\* DcsPassthrough and to the states that ignore the rest of a sequence):
\* nothing reads them before the next entry empties them again.
EntryState(s, next) ==
    [Clear(s) EXCEPT !.osc = <<>>]

EntryHooks(s, next) ==
    IF next = "DcsPassthrough" THEN <<HookHook(s)>> ELSE <<>>

\* Overflowing the intermediates of a CSI moves it to CsiIgnore.
NextState(s, t) ==
    IF /\ t.act = "collect"
       /\ t.next = "CsiIntermediate"
       /\ Len(s.intermediates) = MAX_INTERMEDIATES
    THEN "CsiIgnore"
    ELSE t.next

\* One byte outside Ground: the exit action of the state left, the action of
\* the transition, the entry action of the state entered.
AdvanceSequence(s, b) ==
    LET t == StateChange(s, b)
        next == NextState(s, t)
        changed == IsAnywhere(b) \/ next # s.state
        s2 == ActionState(s, t.act, b)
        keeps == \/ next \in {"CsiParam", "CsiIntermediate", "EscapeIntermediate",
                              "DcsParam", "DcsIntermediate"}
                 \/ next = "CsiIgnore" /\ s2.ignoring
        s3 == IF changed /\ ~keeps THEN EntryState(s2, next) ELSE s2
    IN  [sm |-> [s3 EXCEPT !.state = next],
         hooks |-> (IF changed THEN ExitHooks(s) ELSE <<>>)
                   \o ActionHooks(s, t.act, b)
                   \o (IF changed THEN EntryHooks(s2, next) ELSE <<>>)]

(* Ground: printable text, decoded as UTF-8, and the controls. *)
Utf8Need(b) ==
    IF b \in 194..223 THEN 1 ELSE IF b \in 224..239 THEN 2
    ELSE IF b \in 240..244 THEN 3 ELSE 0

Utf8Lead(b) ==
    IF b \in 194..223 THEN b - 192 ELSE IF b \in 224..239 THEN b - 224 ELSE b - 240

AdvanceGround(s, b) ==
    IF s.utf8need > 0
    THEN \* inside a multi-byte character: a continuation byte extends it, any
         \* other byte ends it as an invalid sequence
         IF b \in 128..191
         THEN LET acc == s.utf8acc * 64 + (b - 128)
              IN  IF s.utf8need = 1
                  THEN [sm |-> [s EXCEPT !.utf8need = 0, !.utf8acc = 0],
                        hooks |-> <<PrintHook(acc)>>]
                  ELSE [sm |-> [s EXCEPT !.utf8need = @ - 1, !.utf8acc = acc],
                        hooks |-> <<>>]
         ELSE [sm |-> [s EXCEPT !.utf8need = 0, !.utf8acc = 0],
               hooks |-> <<PrintHook(REPLACEMENT)>>]
    ELSE IF b = ESC
    THEN [sm |-> [Clear(s) EXCEPT !.state = "Escape"], hooks |-> <<>>]
    ELSE IF b \in 32..126 THEN [sm |-> s, hooks |-> <<PrintHook(b)>>]
    ELSE IF b < 160 THEN [sm |-> s, hooks |-> <<ExecuteHook(b)>>]
    ELSE IF Utf8Need(b) > 0
    THEN [sm |-> [s EXCEPT !.utf8need = Utf8Need(b), !.utf8acc = Utf8Lead(b)],
          hooks |-> <<>>]
    ELSE [sm |-> s, hooks |-> <<PrintHook(REPLACEMENT)>>]

\* vte::Parser::advance: the state after the byte and the hooks it invoked.
Advance(s, b) ==
    IF s.state = "Ground" THEN AdvanceGround(s, b) ELSE AdvanceSequence(s, b)


----------------------------------------------------------------------------
(* Action values and the parsers of the escape module *)

\* An Option is a sequence of at most one element.
None == <<>>
Some(x) == <<x>>

\* The C1 positions that stand for no control function: PAD, HOP, IND, SGCI
UnassignedC1 == {128, 129, 132, 153}

\* ControlCode: the C0 and C1 codes num::FromPrimitive::from_u8 recognises.
IsControlCode(byte) ==
    byte \in ((0..31) \cup {DEL} \cup (128..159)) \ UnassignedC1

\* CSI::parse: an SGR (final 'm', no intermediates) yields one action per
\* parameter, left to right; any other sequence yields one action.  Each action
\* keeps the flag the dispatch was made with.
CsiParse(params, intermediates, ignored, control) ==
    IF control = 109 /\ intermediates = <<>>
    THEN [i \in 1..Len(params) |->
            [csi |-> "Sgr", param |-> params[i], ignored |-> ignored]]
    ELSE <<[csi |-> "Other", params |-> params, intermediates |-> intermediates,
            ignored |-> ignored, control |-> control]>>

\* OperatingSystemCommand::parse: selector 0 with one text field sets the icon
\* name and window title, an unknown selector keeps the fields.
OscParse(osc) ==
    IF Len(osc) = 2 /\ osc[1] = <<48>>
    THEN [osc |-> "SetIconNameAndWindowTitle", text |-> osc[2]]
    ELSE [osc |-> "Unspecified", fields |-> osc]

\* Esc::parse: the intermediate and the final byte determine the Esc value.
EscParse(intermediate, control) ==
    [intermediate |-> intermediate, control |-> control]

----------------------------------------------------------------------------
(* impl vte::Perform for Performer: the Actions each hook hands the callback *)

print(h) == <<[type |-> "Print", c |-> h.c]>>

\* An execute that delivers a Control for every byte it is given
ExecuteUnchecked(h) == <<[type |-> "Control", code |-> h.byte]>>

execute(h) ==
    IF IsControlCode(h.byte)
    THEN <<[type |-> "Control", code |-> h.byte]>>
    ELSE <<>>

\* A hook that does not pass the overflow flag on
HookUnflagged(h) ==
    <<[type |-> "DeviceControl", mode |-> "Enter", params |-> h.params,
       intermediates |-> h.intermediates,
       ignored_extra_intermediates |-> FALSE]>>

hook(h) ==
    <<[type |-> "DeviceControl", mode |-> "Enter", params |-> h.params,
       intermediates |-> h.intermediates,
       ignored_extra_intermediates |-> h.ignored]>>

\* A put that delivers its byte twice
PutTwice(h) ==
    <<[type |-> "DeviceControl", mode |-> "Data", data |-> h.byte],
      [type |-> "DeviceControl", mode |-> "Data", data |-> h.byte]>>

put(h) == <<[type |-> "DeviceControl", mode |-> "Data", data |-> h.byte]>>

\* An unhook that delivers nothing
UnhookSilent(h) == <<>>

unhook(h) == <<[type |-> "DeviceControl", mode |-> "Exit"]>>

\* An osc_dispatch that hands the fields over without OperatingSystemCommand::parse
OscDispatchRaw(h) ==
    <<[type |-> "OperatingSystemCommand",
       osc |-> [osc |-> "Unspecified", fields |-> h.osc]]>>

osc_dispatch(h) ==
    <<[type |-> "OperatingSystemCommand", osc |-> OscParse(h.osc)]>>

\* A csi_dispatch that delivers the last of the parsed actions first
CsiDispatchBackwards(h) ==
    LET parsed == CsiParse(h.params, h.intermediates, h.ignored, h.control)
    IN  [i \in 1..Len(parsed) |->
            [type |-> "CSI", csi |-> parsed[Len(parsed) + 1 - i]]]

csi_dispatch(h) ==
    LET parsed == CsiParse(h.params, h.intermediates, h.ignored, h.control)
    IN  [i \in 1..Len(parsed) |-> [type |-> "CSI", csi |-> parsed[i]]]

\* An esc_dispatch that reads intermediates[0] without looking at the length:
\* the index panics when there is no intermediate.
EscDispatchUnchecked(h) ==
    IF Len(h.intermediates) = 0
    THEN <<[type |-> "Panic"]>>
    ELSE <<[type |-> "Esc", esc |-> EscParse(Some(h.intermediates[1]), h.control)]>>

\* An esc_dispatch that passes the first intermediate on however many there
\* are
EscDispatchFirstOfMany(h) ==
    <<[type |-> "Esc",
       esc |-> EscParse(IF Len(h.intermediates) >= 1
                        THEN Some(h.intermediates[1])
                        ELSE None,
                        h.control)]>>

esc_dispatch(h) ==
    <<[type |-> "Esc",
       esc |-> EscParse(IF Len(h.intermediates) = 1
                        THEN Some(h.intermediates[1])
                        ELSE None,
                        h.control)]>>

Perform(h) ==
    CASE h.hook = "print" -> print(h)
      [] h.hook = "execute" -> execute(h)
      [] h.hook = "hook" -> hook(h)
      [] h.hook = "put" -> put(h)
      [] h.hook = "unhook" -> unhook(h)
      [] h.hook = "osc_dispatch" -> osc_dispatch(h)
      [] h.hook = "csi_dispatch" -> csi_dispatch(h)
      [] h.hook = "esc_dispatch" -> esc_dispatch(h)

RECURSIVE PerformAll(_)
PerformAll(hooks) ==
    IF hooks = <<>> THEN <<>>
    ELSE Perform(Head(hooks)) \o PerformAll(Tail(hooks))

\* state_machine.advance(&mut perform, b): the new state machine and the
\* Actions the callback received, in order.
Feed(s, b) ==
    LET r == Advance(s, b)
    IN  [sm |-> r.sm, out |-> PerformAll(r.hooks)]


----------------------------------------------------------------------------
(* The encoded form of an Action (impl Display), as the tests of the parser
   pin it down *)

\* A char written with "{}": its UTF-8 encoding
EncodeChar(c) ==
    IF c < 128 THEN <<c>>
    ELSE IF c < 2048 THEN <<192 + (c \div 64), 128 + (c % 64)>>
    ELSE <<224 + (c \div 4096), 128 + ((c \div 64) % 64), 128 + (c % 64)>>

\* A parameter written in decimal
RECURSIVE Digits(_)
Digits(n) == IF n < 10 THEN <<48 + n>> ELSE Digits(n \div 10) \o <<48 + (n % 10)>>

\* The fields of an OSC, separated by ';'
RECURSIVE Joined(_)
Joined(fields) ==
    IF fields = <<>> THEN <<>>
    ELSE IF Len(fields) = 1 THEN fields[1]
    ELSE fields[1] \o <<SEMI>> \o Joined(Tail(fields))

\* The Actions the tests show the encoding of: Print, the CSI of one SGR
\* parameter, OperatingSystemCommand and Esc
HasEncoding(a) ==
    \/ a.type \in {"Print", "OperatingSystemCommand", "Esc"}
    \/ a.type = "CSI" /\ a.csi.csi = "Sgr" /\ ~a.csi.ignored

Encode(a) ==
    CASE a.type = "Print" -> EncodeChar(a.c)
      [] a.type = "CSI" -> <<ESC, 91>> \o Digits(a.csi.param) \o <<109>>
      [] a.type = "OperatingSystemCommand" ->
            IF a.osc.osc = "SetIconNameAndWindowTitle"
            THEN <<ESC, 93, 48, SEMI>> \o a.osc.text \o <<BEL>>
            ELSE <<ESC, 93>> \o Joined(a.osc.fields) \o <<BEL>>
      [] a.type = "Esc" -> <<ESC>> \o a.esc.intermediate \o <<a.esc.control>>

\* encode(seq): the encodings of the Actions, one after the other
RECURSIVE encode(_)
encode(seq) == IF seq = <<>> THEN <<>> ELSE Encode(Head(seq)) \o encode(Tail(seq))

----------------------------------------------------------------------------
(* impl Parser *)

\* Parser::new
NewParser == NewStateMachine

\* A parse that starts every call from a new state machine
ParseEnterFresh(s) == NewStateMachine

\* parse, before its loop: the Performer borrows the callback and nothing
\* else; the state machine is the one the Parser holds.
ParseEnter(s) == s

\* parse, one iteration of `for b in bytes`
ParseIter(s, b) == Feed(s, b)

RECURSIVE ParseLoop(_, _, _, _, _)
\* A loop that hands the actions of a byte to the sink ahead of those of the
\* bytes before it
ParseStepOfAhead(r, bytes, i, out) == ParseLoop(r.sm, bytes, i + 1, r.out \o out, r.out)

ParseStepOf(r, bytes, i, out) == ParseLoop(r.sm, bytes, i + 1, out \o r.out, r.out)

ParseLoop(s, bytes, i, out, last) ==
    IF i > Len(bytes) THEN [sm |-> s, out |-> out, last |-> last]
    ELSE ParseStepOf(ParseIter(s, bytes[i]), bytes, i, out)

\* parse(bytes, callback) as a whole: the state machine after the call, every
\* Action delivered, and those of the last byte.
Parse(s, bytes) == ParseLoop(ParseEnter(s), bytes, 1, <<>>, <<>>)

\* A parse_first that starts every call from a new state machine
ParseFirstEnterFresh(s) == NewStateMachine

\* parse_first, before its loop
ParseFirstEnter(s) == s

\* A callback that overwrites the action it holds
CaptureLast(held, action) == Some(action)

\* parse_first's callback: keep the action only if none is held yet.
CaptureFirst(held, action) == IF held # None THEN held ELSE Some(action)

RECURSIVE CaptureAll(_, _)
CaptureAll(held, out) ==
    IF out = <<>> THEN held
    ELSE CaptureAll(CaptureFirst(held, Head(out)), Tail(out))

\* A parse_first that leaves the state machine before a byte of which it
\* returns only the first action
ParseFirstIterRewinding(s, held, i, b) ==
    LET r == Feed(s, b)
        h == CaptureAll(held, r.out)
    IN  [sm |-> IF Len(r.out) > 1 THEN s ELSE r.sm, out |-> r.out, first |-> h,
         first_idx |-> IF h # None THEN Some(i) ELSE None]

\* parse_first, one iteration: advance, then record the index and break once
\* an action is held.
ParseFirstIter(s, held, i, b) ==
    LET r == Feed(s, b)
        h == CaptureAll(held, r.out)
    IN  [sm |-> r.sm, out |-> r.out, first |-> h,
         first_idx |-> IF h # None THEN Some(i) ELSE None]

\* parse_first: the loop goes on while no index has been recorded.
ParseFirstLoops(fidx) == fidx = None

\* parse_first's result
ParseFirstReturn(held, fidx) ==
    IF held # None /\ fidx # None
    THEN [of |-> "parse_first", some |-> TRUE, action |-> held[1], n |-> fidx[1] + 1]
    ELSE [of |-> "parse_first", some |-> FALSE]

\* A parse_first_as_vec that starts every call from a new state machine
ParseFirstAsVecEnterFresh(s) == NewStateMachine

\* parse_first_as_vec, before its loop
ParseFirstAsVecEnter(s) == s

\* parse_first_as_vec, one iteration: the callback pushes every action; the
\* index is recorded and the loop left once the Vec is not empty.
ParseFirstAsVecIter(s, acts, i, b) ==
    LET r == Feed(s, b)
        a == acts \o r.out
    IN  [sm |-> r.sm, out |-> r.out, actions |-> a,
         first_idx |-> IF a # <<>> THEN Some(i) ELSE None]

\* A parse_first_as_vec loop without its break
ParseFirstAsVecNoBreak(fidx) == TRUE

\* parse_first_as_vec: the loop goes on while no index has been recorded.
ParseFirstAsVecLoops(fidx) == fidx = None

\* parse_first_as_vec's result
ParseFirstAsVecReturn(acts, fidx) ==
    IF fidx # None
    THEN [of |-> "parse_first_as_vec", some |-> TRUE, actions |-> acts,
          n |-> fidx[1] + 1]
    ELSE [of |-> "parse_first_as_vec", some |-> FALSE]

\* parse_first_as_vec(bytes) as a whole: the state machine after the call and
\* the result
RECURSIVE ParseFirstAsVecLoop(_, _, _, _, _)
ParseFirstAsVecStepOf(r, bytes, i) ==
    ParseFirstAsVecLoop(r.sm, bytes, i + 1, r.actions, r.first_idx)

ParseFirstAsVecLoop(s, bytes, i, acts, fidx) ==
    IF i >= Len(bytes) \/ ~ParseFirstAsVecLoops(fidx)
    THEN [sm |-> s, ret |-> ParseFirstAsVecReturn(acts, fidx)]
    ELSE ParseFirstAsVecStepOf(ParseFirstAsVecIter(s, acts, i, bytes[i + 1]), bytes, i)

ParseFirstAsVec(s, bytes) ==
    ParseFirstAsVecLoop(ParseFirstAsVecEnter(s), bytes, 0, <<>>, None)

----------------------------------------------------------------------------
(* Inputs *)

\* The bytes fed: ESC [ ] P m 1 ; % BEL CAN ST, the two bytes of U+00E9 and a
\* C1 byte that is no ControlCode
Alphabet == {ESC, 91, 93, 80, 109, 49, SEMI, 37, BEL, CAN, ST, 195, 169, 128}

Semis(n) == [i \in 1..n |-> SEMI]

\* Inputs that fill the parameter buffer, or the intermediate buffer, of a CSI
\* and of a DCS
LongInputs ==
    {<<ESC, 91>> \o Semis(MAX_PARAMS - 1), <<ESC, 80>> \o Semis(MAX_PARAMS - 1),
     <<ESC, 91, 37, 37>>, <<ESC, 80, 37, 37>>}

Min(a, b) == IF a < b THEN a ELSE b

\* The DeviceControl envelope after a run of Actions
RECURSIVE DcsAfter(_, _)
DcsAfter(open, out) ==
    IF out = <<>> THEN open
    ELSE DcsAfter(IF Head(out).type = "DeviceControl"
                  THEN (IF Head(out).mode = "Exit" THEN FALSE ELSE TRUE)
                  ELSE open,
                  Tail(out))

----------------------------------------------------------------------------
(* The parser as a state machine: one call at a time, one byte per step *)

NoRet == [of |-> "none"]

\* The state machine is between sequences and between characters.
AtRest(s) == s.state = "Ground" /\ s.utf8need = 0

ParserInit ==
    /\ sm = NewParser
    /\ call = "idle"
    /\ idx = 0
    /\ fedByte = -1
    /\ emitted = <<>>
    /\ first = None
    /\ first_idx = None
    /\ actions = <<>>
    /\ ret = NoRet
    /\ hist = "none"
    /\ resumed = FALSE
    /\ budget = MaxSeq
    /\ oneShot = NewStateMachine
    /\ oneEmitted = <<>>
    /\ oneFed = 0
    /\ oneEarlier = FALSE
    /\ oneBefore = 0
    /\ oneCount = 0
    /\ dcsOpen = FALSE

\* let mut p = Parser::new(): the parser is replaced by a fresh one, and so is
\* the parser of the single parse call it is compared with
New ==
    /\ call = "idle"
    /\ ret # NoRet
    /\ sm' = NewParser
    /\ call' = "idle"
    /\ idx' = 0
    /\ fedByte' = -1
    /\ emitted' = <<>>
    /\ first' = None
    /\ first_idx' = None
    /\ actions' = <<>>
    /\ ret' = NoRet
    /\ hist' = "none"
    /\ resumed' = FALSE
    /\ budget' = MaxSeq
    /\ oneShot' = NewStateMachine
    /\ oneEmitted' = <<>>
    /\ oneFed' = 0
    /\ oneEarlier' = FALSE
    /\ oneBefore' = 0
    /\ oneCount' = 0
    /\ dcsOpen' = FALSE
    /\ UNCHANGED renderVars

\* The calls finished so far: none, only parse_first calls that returned None,
\* or anything else
HistAfter(h, r) ==
    IF r = NoRet THEN h
    ELSE IF h \in {"none", "pf_none"} /\ r.of = "parse_first" /\ ~r.some THEN "pf_none"
    ELSE "mixed"

\* What every call does on entry, besides its own locals
Begin(method, s) ==
    /\ call = "idle"
    /\ call' = method
    /\ sm' = s
    /\ idx' = 0
    /\ fedByte' = -1
    /\ emitted' = <<>>
    /\ first' = None
    /\ first_idx' = None
    /\ actions' = <<>>
    /\ ret' = NoRet
    /\ oneEmitted' = <<>>
    /\ oneFed' = 0
    /\ hist' = HistAfter(hist, ret)
    /\ resumed' = ~AtRest(sm)
    /\ oneEarlier' = (hist' = "pf_none" /\ (oneEarlier \/ oneCount > 0))
    /\ oneBefore' = 0
    /\ oneCount' = 0
    /\ UNCHANGED <<budget, oneShot, dcsOpen>>
    /\ UNCHANGED renderVars

\* The inputs explored: a sequence within MaxSeq, an OSC payload within MaxOsc
Within(s, b) ==
    /\ budget > 0
    /\ ~(s.state = "OscString" /\ Len(s.osc) >= MaxOsc
         /\ StateChange(s, b).act = "osc_put")

\* What feeding one byte does besides the call's own locals: the single parse
\* call of the second parser takes the same byte
Fed(b, r) ==
    LET o == ParseIter(oneShot, b)
    IN  /\ sm' = r.sm
        /\ emitted' = r.out
        /\ fedByte' = b
        /\ budget' = (IF AtRest(r.sm) THEN MaxSeq ELSE budget - 1)
        /\ oneShot' = o.sm
        /\ oneEmitted' = o.out
        /\ oneFed' = (IF call = "parse" THEN 0 ELSE oneFed + 1)
        /\ oneBefore' = (IF call = "parse" THEN 0 ELSE oneCount)
        /\ oneCount' = (IF call = "parse" THEN 0 ELSE Min(2, oneCount + Len(o.out)))
        /\ dcsOpen' = DcsAfter(dcsOpen, r.out)
        /\ UNCHANGED <<call, hist, resumed, oneEarlier>>
        /\ UNCHANGED renderVars

End(returned) ==
    /\ call' = "idle"
    /\ ret' = returned
    /\ UNCHANGED <<hist, resumed, sm, idx, fedByte, emitted, first, first_idx, actions, budget,
                   oneShot, oneEmitted, oneFed, oneEarlier, oneBefore, oneCount,
                   dcsOpen>>
    /\ UNCHANGED renderVars

ParseBegin == Begin("parse", ParseEnter(sm))

ParseStep ==
    /\ call = "parse"
    /\ \E b \in Alphabet :
          /\ Within(sm, b)
          /\ Fed(b, ParseIter(sm, b))
          /\ UNCHANGED <<idx, first, first_idx, actions, ret>>

ParseEnd ==
    /\ call = "parse"
    /\ End([of |-> "parse"])

\* A whole parse call on a fresh parser, with an input that fills the
\* parameter buffer
ParseLong ==
    /\ call = "idle"
    /\ ret = NoRet
    /\ \E bytes \in LongInputs :
          LET r == Parse(sm, bytes)
              o == Parse(oneShot, bytes)
          IN  /\ sm' = r.sm
              /\ emitted' = r.last
              /\ fedByte' = bytes[Len(bytes)]
              /\ oneShot' = o.sm
              /\ oneEmitted' = o.last
              /\ dcsOpen' = DcsAfter(dcsOpen, r.out)
    /\ ret' = [of |-> "parse"]
    /\ budget' = MaxSeq - 2
    /\ UNCHANGED <<call, hist, resumed, idx, first, first_idx, actions, oneFed, oneEarlier,
                   oneBefore, oneCount>>
    /\ UNCHANGED renderVars

ParseFirstBegin == Begin("parse_first", ParseFirstEnter(sm))

ParseFirstStep ==
    /\ call = "parse_first"
    /\ ParseFirstLoops(first_idx)
    /\ idx < MaxLen
    /\ \E b \in Alphabet :
          LET r == ParseFirstIter(sm, first, idx, b)
          IN  /\ Within(sm, b)
              /\ Fed(b, r)
              /\ first' = r.first
              /\ first_idx' = r.first_idx
              /\ idx' = idx + 1
              /\ UNCHANGED <<actions, ret>>

ParseFirstEnd ==
    /\ call = "parse_first"
    /\ End(ParseFirstReturn(first, first_idx))

ParseFirstAsVecBegin == Begin("parse_first_as_vec", ParseFirstAsVecEnter(sm))

ParseFirstAsVecStep ==
    /\ call = "parse_first_as_vec"
    /\ ParseFirstAsVecLoops(first_idx)
    /\ idx < MaxLen
    /\ \E b \in Alphabet :
          LET r == ParseFirstAsVecIter(sm, actions, idx, b)
          IN  /\ Within(sm, b)
              /\ Fed(b, r)
              /\ actions' = r.actions
              /\ first_idx' = r.first_idx
              /\ idx' = idx + 1
              /\ UNCHANGED <<first, ret>>

ParseFirstAsVecEnd ==
    /\ call = "parse_first_as_vec"
    /\ End(ParseFirstAsVecReturn(actions, first_idx))

ParserNext ==
    \/ New
    \/ ParseBegin
    \/ ParseStep
    \/ ParseEnd
    \/ ParseLong
    \/ ParseFirstBegin
    \/ ParseFirstStep
    \/ ParseFirstEnd
    \/ ParseFirstAsVecBegin
    \/ ParseFirstAsVecStep
    \/ ParseFirstAsVecEnd


----------------------------------------------------------------------------
(* render/windows.rs: the attribute word *)

\* Integer widths of the casts in render_to
I16(x) == ((x + 32768) % 65536) - 32768
\* `as u32` of a coordinate or a size the console reports: these are i16
\* values that are not negative, so that the cast keeps the number, and the
\* product of two of them is below 2^32.
U32(x) == x
SaturatingSub(a, b) == IF a > b THEN a - b ELSE 0

\* wincon attribute bits
FOREGROUND_BLUE == 1
FOREGROUND_GREEN == 2
FOREGROUND_RED == 4
FOREGROUND_INTENSITY == 8
BACKGROUND_BLUE == 16
BACKGROUND_GREEN == 32
BACKGROUND_RED == 64
BACKGROUND_INTENSITY == 128
COMMON_LVB_REVERSE_VIDEO == 16384
COMMON_LVB_UNDERSCORE == 32768

\* ColorAttribute
Default == [kind |-> "Default"]
PaletteIndex(index) == [kind |-> "PaletteIndex", idx |-> index]
TrueColorWithDefaultFallback(rgb) == [kind |-> "TrueColorWithDefaultFallback", rgb |-> rgb]
TrueColorWithPaletteFallback(rgb, index) ==
    [kind |-> "TrueColorWithPaletteFallback", rgb |-> rgb, idx |-> index]

\* CellAttributes::default()
DefaultAttributes ==
    [intensity |-> "Normal", underline |-> "None", italic |-> FALSE,
     reverse |-> FALSE, strikethrough |-> FALSE, blink |-> FALSE,
     invisible |-> FALSE, foreground |-> Default, background |-> Default,
     line_drawing |-> FALSE, hyperlink |-> None]

\* AnsiColor, by its number: Black Maroon Green Olive Navy Purple Teal Silver
\* Grey Red Lime Yellow Blue Fuschia Aqua White
Black == 0
White == 15

\* An ansi_colors! that takes the red bit for the blue one and the blue for
\* the red
AnsiColorsBlueForRed(index, default, red, green, blue, bright) ==
    LET variant == IF index \in 0..15 THEN index ELSE default
        bits == <<0, blue, green, blue + green, red, blue + red, green + red,
                  blue + green + red>>
    IN  IF variant < 8 THEN bits[variant + 1] ELSE bright + bits[variant - 7]

\* ansi_colors!: from_u8(idx).unwrap_or(default), then the bits of the variant
AnsiColors(index, default, red, green, blue, bright) ==
    LET variant == IF index \in 0..15 THEN index ELSE default
    IN  CASE variant = 0 -> 0
          [] variant = 1 -> red
          [] variant = 2 -> green
          [] variant = 3 -> red + green
          [] variant = 4 -> blue
          [] variant = 5 -> red + blue
          [] variant = 6 -> green + blue
          [] variant = 7 -> red + green + blue
          [] variant = 8 -> bright
          [] variant = 9 -> bright + red
          [] variant = 10 -> bright + green
          [] variant = 11 -> bright + red + green
          [] variant = 12 -> bright + blue
          [] variant = 13 -> bright + red + blue
          [] variant = 14 -> bright + green + blue
          [] variant = 15 -> bright + red + green + blue

\* A to_attr_word that gives invisible text the word 0, black on black
ToAttrWordHidingInvisible(attr) ==
    LET fg == IF attr.foreground.kind \in {"TrueColorWithDefaultFallback", "Default"}
              THEN FOREGROUND_BLUE + FOREGROUND_RED + FOREGROUND_GREEN
                   + FOREGROUND_INTENSITY
              ELSE AnsiColors(attr.foreground.idx, White, FOREGROUND_RED,
                              FOREGROUND_GREEN, FOREGROUND_BLUE, FOREGROUND_INTENSITY)
        bg == IF attr.background.kind \in {"TrueColorWithDefaultFallback", "Default"}
              THEN 0
              ELSE AnsiColors(attr.background.idx, Black, BACKGROUND_RED,
                              BACKGROUND_GREEN, BACKGROUND_BLUE, BACKGROUND_INTENSITY)
        reverse == IF attr.reverse THEN COMMON_LVB_REVERSE_VIDEO ELSE 0
        underline == IF attr.underline # "None" THEN COMMON_LVB_UNDERSCORE ELSE 0
    IN  IF attr.invisible THEN 0 ELSE bg + fg + reverse + underline

\* to_attr_word: the four contributions occupy different bits, so that their
\* bitwise or is their sum.
to_attr_word(attr) ==
    LET fg == IF attr.foreground.kind \in {"TrueColorWithDefaultFallback", "Default"}
              THEN FOREGROUND_BLUE + FOREGROUND_RED + FOREGROUND_GREEN
                   + FOREGROUND_INTENSITY
              ELSE AnsiColors(attr.foreground.idx, White, FOREGROUND_RED,
                              FOREGROUND_GREEN, FOREGROUND_BLUE, FOREGROUND_INTENSITY)
        bg == IF attr.background.kind \in {"TrueColorWithDefaultFallback", "Default"}
              THEN 0
              ELSE AnsiColors(attr.background.idx, Black, BACKGROUND_RED,
                              BACKGROUND_GREEN, BACKGROUND_BLUE, BACKGROUND_INTENSITY)
        reverse == IF attr.reverse THEN COMMON_LVB_REVERSE_VIDEO ELSE 0
        underline == IF attr.underline # "None" THEN COMMON_LVB_UNDERSCORE ELSE 0
    IN  bg + fg + reverse + underline

----------------------------------------------------------------------------
(* The console behind ConsoleOutputHandle *)

\* The calls of ConsoleOutputHandle and of Write
Flush == [op |-> "flush"]
GetBufferInfo == [op |-> "get_buffer_info"]
SetViewport(l, t, r, b) ==
    [op |-> "set_viewport", left |-> l, top |-> t, right |-> r, bottom |-> b]
FillChar(ch, x, y, count) ==
    [op |-> "fill_char", ch |-> ch, x |-> x, y |-> y, count |-> count]
FillAttr(word, x, y, count) ==
    [op |-> "fill_attr", word |-> word, x |-> x, y |-> y, count |-> count]
SetCursorPosition(x, y) == [op |-> "set_cursor_position", x |-> x, y |-> y]
SetAttr(word) == [op |-> "set_attr", word |-> word]
ScrollRegion(l, t, r, b, dx, dy, word) ==
    [op |-> "scroll_region", left |-> l, top |-> t, right |-> r, bottom |-> b,
     dx |-> dx, dy |-> dy, attr |-> word]
WriteAll(bytes) == [op |-> "write", bytes |-> bytes]

SPACE == 32

\* The console places buffered text on flush and advances the cursor, a row
\* at a time, up to the last cell of the buffer.
FlushedCursor(con) ==
    LET w == con.dwSize.X
        cells == w * con.dwSize.Y
        at == con.dwCursorPosition.Y * w + con.dwCursorPosition.X + con.pending
        to == IF at >= cells THEN cells - 1 ELSE at
    IN  [X |-> to % w, Y |-> to \div w]

\* A cursor position outside the screen buffer is refused.
Refused(con, c) ==
    /\ c.op = "set_cursor_position"
    /\ ~(c.x \in 0..(con.dwSize.X - 1) /\ c.y \in 0..(con.dwSize.Y - 1))

\* The console after one call that succeeded
ConsoleAfter(con, c) ==
    CASE c.op = "flush" ->
            [con EXCEPT !.dwCursorPosition = FlushedCursor(con), !.pending = 0]
      [] c.op = "write" -> [con EXCEPT !.pending = @ + Len(c.bytes)]
      [] c.op = "set_cursor_position" ->
            [con EXCEPT !.dwCursorPosition = [X |-> c.x, Y |-> c.y]]
      [] c.op = "set_viewport" ->
            [con EXCEPT !.srWindow = [Left |-> c.left, Top |-> c.top,
                                      Right |-> c.right, Bottom |-> c.bottom]]
      [] OTHER -> con

RECURSIVE ConsoleAfterAll(_, _)
ConsoleAfterAll(con, calls) ==
    IF calls = <<>> THEN con
    ELSE ConsoleAfterAll(ConsoleAfter(con, Head(calls)), Tail(calls))

----------------------------------------------------------------------------
(* render_to: what each arm of the match does.  An arm yields the console
   calls it makes, in order, the attributes it assigns, and the number of
   calls that precede the assignment. *)

Arm(calls, attr, after) == [calls |-> calls, attr |-> attr, attrAfter |-> after]

\* CellAttributes::default().set_background(color)
ClearedAttributes(color) == [DefaultAttributes EXCEPT !.background = color]

\* Position
NoChange == [kind |-> "NoChange"]
Absolute(n) == [kind |-> "Absolute", v |-> n]
Relative(d) == [kind |-> "Relative", v |-> d]
EndRelative(d) == [kind |-> "EndRelative", v |-> d]

\* text.as_bytes(): the UTF-8 encoding of code points below U+0800
RECURSIVE AsBytes(_)
AsBytes(text) ==
    IF text = <<>> THEN <<>>
    ELSE (IF Head(text) < 128 THEN <<Head(text)>>
          ELSE <<192 + (Head(text) \div 64), 128 + (Head(text) % 64)>>)
         \o AsBytes(Tail(text))

\* A ClearScreen arm that clears the whole screen buffer
ClearScreenWholeBuffer(color, attr, con) ==
    LET a == ClearedAttributes(color)
        info == ConsoleAfter(con, Flush)
        num_spaces == U32(U32(info.dwSize.X) * U32(info.dwSize.Y))
    IN  Arm(<<Flush, GetBufferInfo,
              FillChar(SPACE, 0, 0, num_spaces),
              FillAttr(to_attr_word(a), 0, 0, num_spaces),
              SetCursorPosition(0, info.srWindow.Top)>>,
            a, 1)

\* A ClearScreen arm that fills before it moves the viewport back to the left
ClearScreenFillFirst(color, attr, con) ==
    LET a == ClearedAttributes(color)
        info == ConsoleAfter(con, Flush)
        num_spaces == U32(U32(info.dwSize.X)
                          * U32(U32(info.dwSize.Y) - U32(info.srWindow.Top)))
    IN  Arm(<<Flush, GetBufferInfo,
              FillChar(SPACE, 0, info.srWindow.Top, num_spaces),
              FillAttr(to_attr_word(a), 0, info.srWindow.Top, num_spaces)>>
            \o (IF info.srWindow.Left # 0
                THEN <<SetViewport(0, info.srWindow.Top,
                                   I16(info.srWindow.Right - info.srWindow.Left),
                                   info.srWindow.Bottom)>>
                ELSE <<>>)
            \o <<SetCursorPosition(0, info.srWindow.Top)>>,
            a, 1)

ClearScreen(color, attr, con) ==
    LET a == ClearedAttributes(color)
        info == ConsoleAfter(con, Flush)
        visible_width == U32(info.dwSize.X)
        visible_height == U32(U32(info.dwSize.Y) - U32(info.srWindow.Top))
        num_spaces == U32(visible_width * visible_height)
    IN  Arm(<<Flush, GetBufferInfo>>
            \o (IF info.srWindow.Left # 0
                THEN <<SetViewport(0, info.srWindow.Top,
                                   I16(info.srWindow.Right - info.srWindow.Left),
                                   info.srWindow.Bottom)>>
                ELSE <<>>)
            \o <<FillChar(SPACE, 0, info.srWindow.Top, num_spaces),
                 FillAttr(to_attr_word(a), 0, info.srWindow.Top, num_spaces),
                 SetCursorPosition(0, info.srWindow.Top)>>,
            a, 1)

\* A ClearToEndOfLine arm that fills with the cleared attributes and keeps
\* current_attr
ClearToEndOfLineKeepingAttr(color, attr, con) ==
    LET a == ClearedAttributes(color)
        info == ConsoleAfter(con, Flush)
        cur == info.dwCursorPosition
        width == SaturatingSub(U32(info.dwSize.X), U32(cur.X))
    IN  Arm(<<Flush, GetBufferInfo,
              FillChar(SPACE, cur.X, cur.Y, width),
              FillAttr(to_attr_word(a), cur.X, cur.Y, width)>>,
            attr, 1)

ClearToEndOfLine(color, attr, con) ==
    LET a == ClearedAttributes(color)
        info == ConsoleAfter(con, Flush)
        cur == info.dwCursorPosition
        width == SaturatingSub(U32(info.dwSize.X), U32(cur.X))
    IN  Arm(<<Flush, GetBufferInfo,
              FillChar(SPACE, cur.X, cur.Y, width),
              FillAttr(to_attr_word(a), cur.X, cur.Y, width)>>,
            a, 1)

\* A ClearToEndOfScreen arm whose second fill starts with the row of the cursor
ClearToEndOfScreenFromCursorRow(color, attr, con) ==
    LET a == ClearedAttributes(color)
        info == ConsoleAfter(con, Flush)
        cur == info.dwCursorPosition
        width == SaturatingSub(U32(info.dwSize.X), U32(cur.X))
        num_spaces == U32(U32(info.dwSize.X)
                          * SaturatingSub(U32(info.dwSize.Y), U32(cur.Y)))
    IN  Arm(<<Flush, GetBufferInfo,
              FillChar(SPACE, cur.X, cur.Y, width),
              FillAttr(to_attr_word(a), cur.X, cur.Y, width),
              FillChar(SPACE, 0, cur.Y, num_spaces),
              FillAttr(to_attr_word(a), 0, cur.Y, num_spaces)>>,
            a, 1)

ClearToEndOfScreen(color, attr, con) ==
    LET a == ClearedAttributes(color)
        info == ConsoleAfter(con, Flush)
        cur == info.dwCursorPosition
        width == SaturatingSub(U32(info.dwSize.X), U32(cur.X))
        visible_width == U32(info.dwSize.X)
        visible_height == SaturatingSub(U32(info.dwSize.Y), U32(U32(cur.Y) + 1))
        num_spaces == U32(visible_width * visible_height)
    IN  Arm(<<Flush, GetBufferInfo,
              FillChar(SPACE, cur.X, cur.Y, width),
              FillAttr(to_attr_word(a), cur.X, cur.Y, width),
              FillChar(SPACE, 0, I16(cur.Y + 1), num_spaces),
              FillAttr(to_attr_word(a), 0, I16(cur.Y + 1), num_spaces)>>,
            a, 1)

\* A Text arm that writes without setting the attribute word
TextWithoutAttr(text, attr, con) ==
    Arm(<<Flush, WriteAll(AsBytes(text))>>, attr, 0)

\* A Text arm that sets the attribute word before it flushes
TextAttrBeforeFlush(text, attr, con) ==
    Arm(<<SetAttr(to_attr_word(attr)), Flush, WriteAll(AsBytes(text))>>, attr, 0)

Text(text, attr, con) ==
    Arm(<<Flush, SetAttr(to_attr_word(attr)), WriteAll(AsBytes(text))>>, attr, 0)

\* A CursorPosition arm that counts Absolute rows from the top of the buffer
CursorPositionFromBufferTop(x, y, attr, con) ==
    LET info == ConsoleAfter(con, Flush)
        cur == info.dwCursorPosition
        col == CASE x.kind = "NoChange" -> cur.X
                 [] x.kind = "Absolute" -> I16(x.v)
                 [] x.kind = "Relative" -> I16(cur.X + I16(x.v))
                 [] x.kind = "EndRelative" -> I16(info.dwSize.X - I16(x.v))
        row == CASE y.kind = "NoChange" -> cur.Y
                 [] y.kind = "Absolute" -> I16(y.v)
                 [] y.kind = "Relative" -> I16(cur.Y + I16(y.v))
                 [] y.kind = "EndRelative" -> I16(info.srWindow.Bottom - I16(y.v))
    IN  Arm(<<Flush, GetBufferInfo, SetCursorPosition(col, row)>>, attr, 0)

CursorPosition(x, y, attr, con) ==
    LET info == ConsoleAfter(con, Flush)
        cur == info.dwCursorPosition
        col == CASE x.kind = "NoChange" -> cur.X
                 [] x.kind = "Absolute" -> I16(x.v)
                 [] x.kind = "Relative" -> I16(cur.X + I16(x.v))
                 [] x.kind = "EndRelative" -> I16(info.dwSize.X - I16(x.v))
        row == CASE y.kind = "NoChange" -> cur.Y
                 [] y.kind = "Absolute" -> I16(info.srWindow.Top + I16(y.v))
                 [] y.kind = "Relative" -> I16(cur.Y + I16(y.v))
                 [] y.kind = "EndRelative" -> I16(info.srWindow.Bottom - I16(y.v))
    IN  Arm(<<Flush, GetBufferInfo, SetCursorPosition(col, row)>>, attr, 0)

\* AttributeChange
Intensity(value) == [attribute |-> "Intensity", intensity |-> value]
Italic(value) == [attribute |-> "Italic", italic |-> value]
Reverse(value) == [attribute |-> "Reverse", reverse |-> value]
StrikeThrough(value) == [attribute |-> "StrikeThrough", strikethrough |-> value]
Blink(value) == [attribute |-> "Blink", blink |-> value]
Invisible(value) == [attribute |-> "Invisible", invisible |-> value]
Underline(value) == [attribute |-> "Underline", underline |-> value]
Foreground(col) == [attribute |-> "Foreground", foreground |-> col]
Background(col) == [attribute |-> "Background", background |-> col]
Hyperlink(link) == [attribute |-> "Hyperlink", hyperlink |-> link]
LineDrawing(value) == [attribute |-> "LineDrawing", line_drawing |-> value]

Attribute(change, attr, con) ==
    Arm(<<>>,
        CASE change.attribute = "Intensity" -> [attr EXCEPT !.intensity = change.intensity]
          [] change.attribute = "Italic" -> [attr EXCEPT !.italic = change.italic]
          [] change.attribute = "Reverse" -> [attr EXCEPT !.reverse = change.reverse]
          [] change.attribute = "StrikeThrough" ->
                [attr EXCEPT !.strikethrough = change.strikethrough]
          [] change.attribute = "Blink" -> [attr EXCEPT !.blink = change.blink]
          [] change.attribute = "Invisible" -> [attr EXCEPT !.invisible = change.invisible]
          [] change.attribute = "Underline" -> [attr EXCEPT !.underline = change.underline]
          [] change.attribute = "Foreground" -> [attr EXCEPT !.foreground = change.foreground]
          [] change.attribute = "Background" -> [attr EXCEPT !.background = change.background]
          [] change.attribute = "Hyperlink" -> [attr EXCEPT !.hyperlink = change.hyperlink]
          [] change.attribute = "LineDrawing" ->
                [attr EXCEPT !.line_drawing = change.line_drawing],
        0)

\* An AllAttributes arm that sends the new attribute word to the console at once
AllAttributesEager(all, attr, con) == Arm(<<SetAttr(to_attr_word(all))>>, all, 1)

AllAttributes(all, attr, con) == Arm(<<>>, all, 0)

\* A Title arm that gives up the attributes
NoOpResetting(attr, con) == Arm(<<>>, DefaultAttributes, 0)

\* CursorColor, CursorShape and Title
NoOp(attr, con) == Arm(<<>>, attr, 0)

\* An Image arm that fills the rows from the last to the first
ImageBottomUp(width, height, attr, con) ==
    LET info == ConsoleAfter(con, Flush)
        cur == info.dwCursorPosition
    IN  Arm(<<Flush, GetBufferInfo>>
            \o [k \in 1..height |->
                  FillChar(SPACE, cur.X, I16(I16(height - k) + cur.Y), U32(width))]
            \o <<SetCursorPosition(I16(cur.X + I16(width)), cur.Y)>>,
            attr, 0)

Image(width, height, attr, con) ==
    LET info == ConsoleAfter(con, Flush)
        cur == info.dwCursorPosition
    IN  Arm(<<Flush, GetBufferInfo>>
            \o [k \in 1..height |->
                  FillChar(SPACE, cur.X, I16(I16(k - 1) + cur.Y), U32(width))]
            \o <<SetCursorPosition(I16(cur.X + I16(width)), cur.Y)>>,
            attr, 0)

\* A ScrollRegionUp arm that does not look at region_size
ScrollRegionUpUnguarded(first_row, region_size, scroll_count, attr, con) ==
    Arm(<<GetBufferInfo,
          ScrollRegion(con.srWindow.Left,
                       I16(con.srWindow.Top + I16(first_row)),
                       con.srWindow.Right,
                       I16(I16(con.srWindow.Top + I16(first_row)) + I16(region_size)),
                       0, I16(0 - I16(scroll_count)), to_attr_word(attr))>>,
        attr, 0)

ScrollRegionUp(first_row, region_size, scroll_count, attr, con) ==
    IF region_size > 0
    THEN Arm(<<GetBufferInfo,
               ScrollRegion(con.srWindow.Left,
                            I16(con.srWindow.Top + I16(first_row)),
                            con.srWindow.Right,
                            I16(I16(con.srWindow.Top + I16(first_row))
                                + I16(region_size)),
                            0, I16(0 - I16(scroll_count)), to_attr_word(attr))>>,
             attr, 0)
    ELSE Arm(<<>>, attr, 0)

\* A ScrollRegionDown arm that scrolls the way ScrollRegionUp does
ScrollRegionDownAsUp(first_row, region_size, scroll_count, attr, con) ==
    ScrollRegionUp(first_row, region_size, scroll_count, attr, con)

ScrollRegionDown(first_row, region_size, scroll_count, attr, con) ==
    IF region_size > 0
    THEN Arm(<<GetBufferInfo,
               ScrollRegion(con.srWindow.Left,
                            I16(con.srWindow.Top + I16(first_row)),
                            con.srWindow.Right,
                            I16(I16(con.srWindow.Top + I16(first_row))
                                + I16(region_size)),
                            0, I16(scroll_count), to_attr_word(attr))>>,
             attr, 0)
    ELSE Arm(<<>>, attr, 0)

\* An end of render_to that sets the attribute word before it flushes
RenderTailAttrFirst(attr, con) ==
    Arm(<<SetAttr(to_attr_word(attr)), Flush>>, attr, 0)

\* After the loop: the final flush and set_attr
RenderTail(attr, con) == Arm(<<Flush, SetAttr(to_attr_word(attr))>>, attr, 0)

----------------------------------------------------------------------------
(* The renderer as a state machine: one render_to call at a time, one change
   per step *)

\* The changes one renderer is given, over all its render_to calls
MaxChanges == 2

\* Consoles: a viewport below some scrollback, one scrolled to the right, and
\* one whose cursor was left in the scrollback
Consoles ==
    {[dwSize |-> [X |-> 4, Y |-> 4],
      dwCursorPosition |-> [X |-> 1, Y |-> 2],
      srWindow |-> [Left |-> 0, Top |-> 1, Right |-> 3, Bottom |-> 3],
      pending |-> 0],
     [dwSize |-> [X |-> 4, Y |-> 3],
      dwCursorPosition |-> [X |-> 3, Y |-> 2],
      srWindow |-> [Left |-> 1, Top |-> 0, Right |-> 3, Bottom |-> 2],
      pending |-> 0],
     [dwSize |-> [X |-> 3, Y |-> 4],
      dwCursorPosition |-> [X |-> 0, Y |-> 0],
      srWindow |-> [Left |-> 0, Top |-> 2, Right |-> 2, Bottom |-> 3],
      pending |-> 0]}

Red == PaletteIndex(9)
Navy == PaletteIndex(4)

Colors == {Default, Navy}
Texts == {<<120>>, <<233>>}
Positions == {<<Absolute(0), Absolute(0)>>, <<Relative(1), EndRelative(0)>>,
              <<NoChange, Relative(-1)>>, <<EndRelative(1), NoChange>>}
AttributeChanges == {Foreground(Red), Reverse(TRUE), Underline("Single"),
                     Intensity("Bold")}
AllAttributesValues ==
    {[DefaultAttributes EXCEPT !.foreground = Navy, !.underline = "Double"]}
Images == {<<2, 2>>}
ScrollRegions == {<<0, 0, 1>>, <<1, 2, 1>>, <<0, 1, 2>>}

RenderStart(con) ==
    /\ current_attr = DefaultAttributes
    /\ console = con
    /\ rcall = "idle"
    /\ changes = <<>>
    /\ log = <<>>
    /\ result = "none"
    /\ failed = 0
    /\ left = MaxChanges

\* WindowsConsoleRenderer::new, on some console
RenderNew ==
    /\ rcall = "idle"
    /\ result # "none"
    /\ \E con \in Consoles :
          /\ current_attr' = DefaultAttributes
          /\ console' = con
          /\ rcall' = "idle"
          /\ changes' = <<>>
          /\ log' = <<>>
          /\ result' = "none"
          /\ failed' = 0
          /\ left' = MaxChanges
    /\ UNCHANGED parserVars

\* render_to is called
RenderBegin ==
    /\ rcall = "idle"
    /\ rcall' = "render"
    /\ changes' = <<>>
    /\ log' = <<>>
    /\ result' = "none"
    /\ failed' = 0
    /\ UNCHANGED <<current_attr, console, left>>
    /\ UNCHANGED parserVars

\* An arm that goes on to its end after a call has failed
IssuedToTheEnd(arm, f) == arm.calls

\* The calls made when call f of the arm fails (f = 0: none fails), and those
\* that succeeded
Issued(arm, f) == IF f = 0 THEN arm.calls ELSE SubSeq(arm.calls, 1, f)
Succeeded(arm, f) == IF f = 0 THEN arm.calls ELSE SubSeq(arm.calls, 1, f - 1)

\* A call the console refuses fails.
MayFailAt(arm, f) ==
    /\ f \in 0..Len(arm.calls)
    /\ \A j \in 1..Len(arm.calls) : Refused(console, arm.calls[j]) => f \in 1..j

\* The console calls of an arm, each followed by `?`: the first that fails
\* ends the arm and render_to.
Run(arm, f) ==
    /\ log' = log \o Issued(arm, f)
    /\ failed' = (IF f = 0 THEN 0 ELSE Len(log) + f)
    /\ console' = ConsoleAfterAll(console, Succeeded(arm, f))
    /\ current_attr' = (IF f = 0 \/ f > arm.attrAfter THEN arm.attr ELSE current_attr)
    /\ UNCHANGED parserVars

\* One iteration of `for change in changes`
Process(change, arm) ==
    /\ rcall = "render"
    /\ left > 0
    /\ left' = left - 1
    /\ changes' = Append(changes, change)
    /\ \E f \in 0..Len(arm.calls) :
          /\ MayFailAt(arm, f)
          /\ Run(arm, f)
          /\ rcall' = (IF f = 0 THEN "render" ELSE "idle")
          /\ result' = (IF f = 0 THEN "none" ELSE "err")

RenderClearScreen ==
    \E color \in Colors :
        Process([change |-> "ClearScreen", color |-> color],
                ClearScreen(color, current_attr, console))

RenderClearToEndOfLine ==
    \E color \in Colors :
        Process([change |-> "ClearToEndOfLine", color |-> color],
                ClearToEndOfLine(color, current_attr, console))

RenderClearToEndOfScreen ==
    \E color \in Colors :
        Process([change |-> "ClearToEndOfScreen", color |-> color],
                ClearToEndOfScreen(color, current_attr, console))

RenderText ==
    \E text \in Texts :
        Process([change |-> "Text", text |-> text],
                Text(text, current_attr, console))

RenderCursorPosition ==
    \E p \in Positions :
        Process([change |-> "CursorPosition", x |-> p[1], y |-> p[2]],
                CursorPosition(p[1], p[2], current_attr, console))

RenderAttribute ==
    \E a \in AttributeChanges :
        Process([change |-> "Attribute", attribute |-> a],
                Attribute(a, current_attr, console))

RenderAllAttributes ==
    \E all \in AllAttributesValues :
        Process([change |-> "AllAttributes", all |-> all],
                AllAttributes(all, current_attr, console))

RenderNoOp ==
    \E kind \in {"CursorColor", "CursorShape", "Title"} :
        Process([change |-> kind], NoOp(current_attr, console))

RenderImage ==
    \E i \in Images :
        Process([change |-> "Image", width |-> i[1], height |-> i[2]],
                Image(i[1], i[2], current_attr, console))

RenderScrollRegionUp ==
    \E r \in ScrollRegions :
        Process([change |-> "ScrollRegionUp", first_row |-> r[1],
                 region_size |-> r[2], scroll_count |-> r[3]],
                ScrollRegionUp(r[1], r[2], r[3], current_attr, console))

RenderScrollRegionDown ==
    \E r \in ScrollRegions :
        Process([change |-> "ScrollRegionDown", first_row |-> r[1],
                 region_size |-> r[2], scroll_count |-> r[3]],
                ScrollRegionDown(r[1], r[2], r[3], current_attr, console))

\* The end of the change list: the final flush and set_attr, then Ok(())
RenderEnd ==
    /\ rcall = "render"
    /\ rcall' = "idle"
    /\ \E f \in 0..2 :
          /\ MayFailAt(RenderTail(current_attr, console), f)
          /\ Run(RenderTail(current_attr, console), f)
          /\ result' = (IF f = 0 THEN "ok" ELSE "err")
    /\ UNCHANGED <<changes, left>>

RenderNext ==
    \/ RenderNew
    \/ RenderBegin
    \/ RenderClearScreen
    \/ RenderClearToEndOfLine
    \/ RenderClearToEndOfScreen
    \/ RenderText
    \/ RenderCursorPosition
    \/ RenderAttribute
    \/ RenderAllAttributes
    \/ RenderNoOp
    \/ RenderImage
    \/ RenderScrollRegionUp
    \/ RenderScrollRegionDown
    \/ RenderEnd

----------------------------------------------------------------------------
(* Specifications *)

\* The parser, beside a renderer that is left alone
Init ==
    /\ ParserInit
    /\ RenderStart(CHOOSE con \in Consoles : con.srWindow.Top = 1)

Spec == Init /\ [][ParserNext]_vars

\* The renderer, beside a parser that is left alone
InitRender == ParserInit /\ \E con \in Consoles : RenderStart(con)

SpecRender == InitRender /\ [][RenderNext]_vars

\* The attribute word: a renderer that holds any of a range of attributes, as
\* an AllAttributes change of an earlier call leaves them, is asked to render
\* the empty change list, which sends to_attr_word(current_attr) to the console.
Crimson == <<255, 0, 0>>

WordColors ==
    {Default, TrueColorWithDefaultFallback(Crimson)}
    \cup {PaletteIndex(i) : i \in (0..15) \cup {16, 196}}
    \cup {TrueColorWithPaletteFallback(Crimson, i) : i \in {1, 9, 196}}

\* Attributes with everything the console cannot show: bold, italic, struck
\* through, blinking, invisible, line drawing, linked
Decorated ==
    [DefaultAttributes EXCEPT !.intensity = "Bold", !.italic = TRUE,
                              !.strikethrough = TRUE, !.blink = TRUE,
                              !.invisible = TRUE, !.line_drawing = TRUE,
                              !.hyperlink = Some(<<104>>)]

WordAttributes ==
    {[rest EXCEPT !.foreground = fg, !.background = bg,
                  !.reverse = rev, !.underline = ul] :
        rest \in {DefaultAttributes, Decorated},
        fg \in WordColors, bg \in WordColors, rev \in BOOLEAN,
        ul \in {"None", "Single", "Double"}}

InitWord ==
    /\ ParserInit
    /\ current_attr \in WordAttributes
    /\ console = CHOOSE con \in Consoles : con.srWindow.Top = 1
    /\ rcall = "idle"
    /\ changes = <<>>
    /\ log = <<>>
    /\ result = "none"
    /\ failed = 0
    /\ left = MaxChanges

WordNext == RenderBegin \/ RenderEnd

SpecWord == InitWord /\ [][WordNext]_vars

\* Framing: a fresh Parser is given to a caller that frames one input with
\* parse_first_as_vec.
MaxFrame == 3

\* Every input of up to MaxFrame bytes, and two longer ones: an SGR whose final
\* byte dispatches two actions, followed by a two-byte character, and a DCS
\* with a byte of data that CAN cuts short, followed by a printable byte
FramingInputs ==
    UNION {[1..n -> Alphabet] : n \in 0..MaxFrame}
    \cup {<<ESC, 91, SEMI, 109, 195, 169>>, <<ESC, 80, 109, 49, CAN, 109>>}

\* A caller that frames its input starts on all of it: ret holds the bytes,
\* what remains of them, the actions and the lengths returned so far, and
\* whether parse_first_as_vec has returned None.
FrameBegin ==
    /\ call = "idle"
    /\ ret = NoRet
    /\ \E bytes \in FramingInputs :
          ret' = [of |-> "framing", bytes |-> bytes, rest |-> bytes, out |-> <<>>,
                  lens |-> <<>>, done |-> FALSE]
    /\ UNCHANGED <<sm, call, idx, fedByte, emitted, first, first_idx, actions,
                   hist, resumed, budget, oneShot, oneEmitted, oneFed, oneEarlier,
                   oneBefore, oneCount, dcsOpen>>
    /\ UNCHANGED renderVars

\* What the caller holds after a call that returned r.ret: on Some, the rest
\* after the consumed prefix, and the actions and the length appended; on
\* None, the end of the framing.
FramedBy(held, r) ==
    IF r.ret.some
    THEN [held EXCEPT !.rest = SubSeq(held.rest, r.ret.n + 1, Len(held.rest)),
                      !.out = held.out \o r.ret.actions,
                      !.lens = Append(held.lens, r.ret.n)]
    ELSE [held EXCEPT !.done = TRUE]

FrameCallOf(r) ==
    /\ sm' = r.sm
    /\ ret' = FramedBy(ret, r)

\* The caller's next call: parse_first_as_vec on what remains
FrameCall ==
    /\ call = "idle"
    /\ ret.of = "framing"
    /\ ~ret.done
    /\ FrameCallOf(ParseFirstAsVec(sm, ret.rest))
    /\ UNCHANGED <<call, idx, fedByte, emitted, first, first_idx, actions, hist,
                   resumed, budget, oneShot, oneEmitted, oneFed, oneEarlier,
                   oneBefore, oneCount, dcsOpen>>
    /\ UNCHANGED renderVars

FramingNext == New \/ FrameBegin \/ FrameCall

SpecFraming == Init /\ [][FramingNext]_vars

\* Clearing: a renderer that earlier Attribute changes have left with a
\* foreground, reverse video, an underline, an intensity and a hyperlink is
\* given Clear, Attribute and Text changes.
Styled ==
    [DefaultAttributes EXCEPT !.foreground = Red, !.background = PaletteIndex(2),
                              !.reverse = TRUE, !.underline = "Single",
                              !.intensity = "Bold", !.hyperlink = Some(<<104>>)]

InitStyled ==
    /\ ParserInit
    /\ current_attr \in {Styled, [Styled EXCEPT !.reverse = FALSE]}
    /\ console \in Consoles
    /\ rcall = "idle"
    /\ changes = <<>>
    /\ log = <<>>
    /\ result = "none"
    /\ failed = 0
    /\ left = MaxChanges

StyledNext ==
    \/ RenderBegin
    \/ RenderClearScreen
    \/ RenderClearToEndOfLine
    \/ RenderClearToEndOfScreen
    \/ RenderAttribute
    \/ RenderText
    \/ RenderEnd

SpecStyled == InitStyled /\ [][StyledNext]_vars

\* Two calls: a renderer is given one change list, then another; every
\* render_to call is taken as a whole, and a console call fails when the
\* console refuses it.
ArmOf(c, attr, con) ==
    CASE c.change = "ClearScreen" -> ClearScreen(c.color, attr, con)
      [] c.change = "ClearToEndOfLine" -> ClearToEndOfLine(c.color, attr, con)
      [] c.change = "ClearToEndOfScreen" -> ClearToEndOfScreen(c.color, attr, con)
      [] c.change = "Text" -> Text(c.text, attr, con)
      [] c.change = "CursorPosition" -> CursorPosition(c.x, c.y, attr, con)
      [] c.change = "Attribute" -> Attribute(c.attribute, attr, con)
      [] c.change = "AllAttributes" -> AllAttributes(c.all, attr, con)
      [] c.change \in {"CursorColor", "CursorShape", "Title"} -> NoOp(attr, con)
      [] c.change = "Image" -> Image(c.width, c.height, attr, con)
      [] c.change = "ScrollRegionUp" ->
            ScrollRegionUp(c.first_row, c.region_size, c.scroll_count, attr, con)
      [] c.change = "ScrollRegionDown" ->
            ScrollRegionDown(c.first_row, c.region_size, c.scroll_count, attr, con)

\* The first call of an arm the console refuses, 0 when it refuses none
FirstRefused(con, calls) ==
    LET refused == {j \in DOMAIN calls : Refused(con, calls[j])}
    IN  IF refused = {} THEN 0 ELSE CHOOSE j \in refused : \A k \in refused : j <= k

\* A render_to that starts every call from the default attributes
RenderEnterDefault(attr) == DefaultAttributes

\* render_to takes &mut self: current_attr is what the last call left.
RenderEnter(attr) == attr

\* `for change in changes`, then the end of render_to
RECURSIVE RenderLoop(_, _, _, _, _)
\* The arm of one change, of which call f is the first the console refuses:
\* the loop goes on when there is none, and render_to returns the error
\* otherwise.
RenderLoopRun(attr, con, list, i, calls, arm, f) ==
    IF f = 0
    THEN RenderLoop(arm.attr, ConsoleAfterAll(con, arm.calls), list, i + 1,
                    calls \o arm.calls)
    ELSE [attr |-> IF f > arm.attrAfter THEN arm.attr ELSE attr,
          con |-> ConsoleAfterAll(con, Succeeded(arm, f)),
          calls |-> calls \o Issued(arm, f), ok |-> FALSE]

RenderLoopArm(attr, con, list, i, calls, arm) ==
    RenderLoopRun(attr, con, list, i, calls, arm, FirstRefused(con, arm.calls))

\* The end of render_to, reached when no call of the loop has failed
RenderLoopEnd(attr, con, calls, tail) ==
    [attr |-> attr, con |-> ConsoleAfterAll(con, tail.calls),
     calls |-> calls \o tail.calls, ok |-> TRUE]

RenderLoop(attr, con, list, i, calls) ==
    IF i > Len(list)
    THEN RenderLoopEnd(attr, con, calls, RenderTail(attr, con))
    ELSE RenderLoopArm(attr, con, list, i, calls, ArmOf(list[i], attr, con))

\* render_to(changes) as a whole: current_attr and the console after the
\* call, the console calls made, and whether it returned Ok(())
RenderTo(attr, con, list) == RenderLoop(RenderEnter(attr), con, list, 1, <<>>)

AllChanges ==
    {[change |-> kind, color |-> color] : kind \in {"ClearScreen", "ClearToEndOfLine", "ClearToEndOfScreen"},
       color \in Colors}
    \cup {[change |-> "Text", text |-> text] : text \in Texts}
    \cup {[change |-> "CursorPosition", x |-> p[1], y |-> p[2]] : p \in Positions}
    \cup {[change |-> "Attribute", attribute |-> a] : a \in AttributeChanges}
    \cup {[change |-> "AllAttributes", all |-> all] : all \in AllAttributesValues}
    \cup {[change |-> kind] : kind \in {"CursorColor", "CursorShape", "Title"}}
    \cup {[change |-> "Image", width |-> i[1], height |-> i[2]] : i \in Images}
    \cup {[change |-> kind, first_row |-> r[1], region_size |-> r[2],
           scroll_count |-> r[3]] :
             kind \in {"ScrollRegionUp", "ScrollRegionDown"}, r \in ScrollRegions}

\* The change lists given: the empty one, every single change, and a Text
\* after an Attribute
ChangeLists ==
    {<<>>} \cup {<<c>> : c \in AllChanges}
    \cup {<<[change |-> "Attribute", attribute |-> Foreground(Red)],
            [change |-> "Text", text |-> <<120>>]>>}

InitTwice == InitRender \/ InitStyled

\* render_to(a) and then render_to(b) on a renderer not used before: changes
\* and log hold the changes and the console calls of both, result what the
\* second returned, failed the last call that failed
RenderTwice ==
    /\ rcall = "idle"
    /\ result = "none"
    /\ \E a \in ChangeLists, b \in ChangeLists :
          \E r1 \in {RenderTo(current_attr, console, a)} :
          \E r2 \in {RenderTo(r1.attr, r1.con, b)} :
              /\ current_attr' = r2.attr
              /\ console' = r2.con
              /\ changes' = a \o b
              /\ log' = r1.calls \o r2.calls
              /\ result' = (IF r2.ok THEN "ok" ELSE "err")
              /\ failed' = (IF ~r2.ok THEN Len(r1.calls) + Len(r2.calls)
                            ELSE IF ~r1.ok THEN Len(r1.calls) ELSE 0)
    /\ UNCHANGED <<rcall, left>>
    /\ UNCHANGED parserVars

TwiceNext == RenderNew \/ RenderTwice

SpecTwice == InitTwice /\ [][TwiceNext]_vars

----------------------------------------------------------------------------
(* Properties of the parser *)

ActionTypes ==
    {"Print", "Control", "DeviceControl", "OperatingSystemCommand", "CSI", "Esc"}

IsCsi(a) == a.type = "CSI"
IsOsc(a) == a.type = "OperatingSystemCommand"
IsControl(a) == a.type = "Control"
IsEnter(a) == a.type = "DeviceControl" /\ a.mode = "Enter"
IsData(a) == a.type = "DeviceControl" /\ a.mode = "Data"
IsExit(a) == a.type = "DeviceControl" /\ a.mode = "Exit"

CsiStates == {"CsiEntry", "CsiParam", "CsiIntermediate", "CsiIgnore"}
DcsStates == {"DcsEntry", "DcsParam", "DcsIntermediate"}

\* The final bytes of a CSI and of a DCS header
IsFinal(b) == b \in 64..126

\* This step fed one byte to the state machine within a call.
Stepped == call # "idle" /\ call' = call

\* C1: whatever calls have been made on a Parser and wherever the input was
\* split between them, the state machine is the one a single parse call on a
\* fresh Parser has after the same bytes, and each byte of a parse call
\* delivers exactly the actions it delivers in that single call.
C1_StreamingEquivalence ==
    /\ sm = oneShot
    /\ (call = "parse" \/ ret = [of |-> "parse"]) => emitted = oneEmitted

\* A parse call that began inside an unfinished CSI has just completed it.
C1_Witness ==
    /\ call = "parse"
    /\ resumed
    /\ emitted # <<>>
    /\ IsCsi(emitted[1])

\* C2, as stated: on a fresh Parser parse_first returns Some((action, n))
\* exactly when the first n bytes emit exactly one action, the returned one,
\* and the first n-1 bytes emit none.
C2_ExactlyOneAction ==
    (call = "idle" /\ ret.of = "parse_first" /\ hist = "none") =>
        /\ ret.some =>
              /\ ret.n = oneFed
              /\ oneBefore = 0
              /\ oneCount = 1
              /\ oneEmitted = <<ret.action>>
        /\ ~ret.some => oneCount = 0

\* C2, amended: on a fresh Parser parse_first returns Some((action, n))
\* exactly when the first n-1 bytes emit no action and the first n bytes emit
\* at least one, whose first is the returned action.
C2_FirstActionFraming ==
    (call = "idle" /\ ret.of = "parse_first" /\ hist = "none") =>
        /\ ret.some =>
              /\ ret.n = oneFed
              /\ ret.n = idx
              /\ oneBefore = 0
              /\ oneCount >= 1
              /\ oneEmitted # <<>>
              /\ ret.action = oneEmitted[1]
        /\ ~ret.some => oneCount = 0

\* parse_first on a fresh Parser returned the first of the two CSI actions the
\* final byte of an SGR emitted.
C2_Witness ==
    /\ call = "idle"
    /\ ret.of = "parse_first"
    /\ hist = "none"
    /\ ret.some
    /\ IsCsi(ret.action)
    /\ oneCount = 2

\* C3: after parse_first calls that returned None, a parse_first call that
\* returns an action returns the one a single call on a fresh Parser finds
\* first in the bytes of all the calls together (none of the earlier bytes
\* having emitted one), and the length it reports counts the bytes of its own
\* input only.
C3_ParseFirstResumes ==
    (call = "idle" /\ ret.of = "parse_first" /\ hist = "pf_none" /\ ret.some) =>
        /\ ~oneEarlier
        /\ oneBefore = 0
        /\ oneEmitted # <<>>
        /\ ret.action = oneEmitted[1]
        /\ ret.n = oneFed

\* A parse_first call returned None inside a CSI and the next one, given the
\* rest of it, returned the CSI action.
C3_Witness ==
    /\ call = "idle"
    /\ ret.of = "parse_first"
    /\ hist = "pf_none"
    /\ resumed
    /\ ret.some
    /\ IsCsi(ret.action)

\* C4: parse_first_as_vec returns Some((actions, n)) where n is the number of
\* bytes fed, the n-th byte is the first of the input to emit an action and
\* actions are, in order, all the actions of that byte; it returns None
\* exactly when no byte of the input emitted an action.
C4_ParseFirstAsVec ==
    (call = "idle" /\ ret.of = "parse_first_as_vec") =>
        /\ ret.some =>
              /\ ret.n = idx
              /\ ret.n = oneFed
              /\ oneBefore = 0
              /\ ret.actions # <<>>
              /\ ret.actions = oneEmitted
        /\ ~ret.some => oneCount = 0

\* parse_first_as_vec returned both actions of the byte that ended a sequence
\* begun in an earlier call.
C4_Witness ==
    /\ call = "idle"
    /\ ret.of = "parse_first_as_vec"
    /\ ret.some
    /\ Len(ret.actions) = 2
    /\ resumed

\* C5, as stated: no byte delivers more than one action.
C5_AtMostOneAction == Len(emitted) <= 1

\* C5, amended: a byte delivers no action, one action, or several in two
\* cases only: the final byte of a CSI delivers one CSI action per item of the
\* sequence, and a control byte that cuts an OSC string or a DCS passthrough
\* short delivers the OSC action, or the DeviceControl Exit, and then the
\* Control.
C5_ByteAccounting ==
    \/ Len(emitted) <= 1
    \/ /\ IsFinal(fedByte)
       /\ \A i \in DOMAIN emitted : IsCsi(emitted[i])
    \/ /\ Len(emitted) = 2
       /\ IsControlCode(fedByte)
       /\ IsOsc(emitted[1]) \/ IsExit(emitted[1])
       /\ emitted[2] = [type |-> "Control", code |-> fedByte]

\* A CAN inside a DCS passthrough delivered the Exit and the Control.
C5_Witness ==
    /\ call = "parse"
    /\ Len(emitted) = 2
    /\ IsExit(emitted[1])
    /\ IsControl(emitted[2])

\* C6: when the parameter or the intermediate buffer of a CSI or of a DCS
\* header has overflowed, the final byte still delivers the CSI actions, or
\* the DeviceControl Enter, and each carries the overflow flag.
C6_OverflowStillDispatches ==
    [][(Stepped /\ sm.ignoring /\ IsFinal(fedByte')) =>
          /\ sm.state \in CsiStates =>
                /\ emitted' # <<>>
                /\ \A i \in DOMAIN emitted' :
                      IsCsi(emitted'[i]) /\ emitted'[i].csi.ignored
          /\ sm.state \in DcsStates =>
                /\ Len(emitted') = 1
                /\ IsEnter(emitted'[1])
                /\ emitted'[1].ignored_extra_intermediates]_vars

\* The final byte of a DCS header with too many intermediates delivered an
\* Enter that carries the flag.
C6_Witness ==
    /\ call # "idle"
    /\ emitted # <<>>
    /\ IsEnter(emitted[1])
    /\ emitted[1].ignored_extra_intermediates

\* The DeviceControl actions of one byte keep the envelope well bracketed.
RECURSIVE DcsBracketed(_, _)
DcsBracketed(open, out) ==
    IF out = <<>> THEN TRUE
    ELSE IF IsEnter(Head(out)) THEN ~open /\ DcsBracketed(TRUE, Tail(out))
    ELSE IF IsData(Head(out)) THEN open /\ DcsBracketed(TRUE, Tail(out))
    ELSE IF IsExit(Head(out)) THEN open /\ DcsBracketed(FALSE, Tail(out))
    ELSE DcsBracketed(open, Tail(out))

\* The bytes a DCS passthrough hands on
IsPassthroughByte(b) == b \in 0..126 /\ b \notin {CAN, SUB, ESC}

WellFormed(r) ==
    /\ r.sm.state \in States
    /\ \A i \in DOMAIN r.out : r.out[i].type \in ActionTypes

\* C8: in every reachable state the state machine is in one of its states,
\* the actions delivered are well formed and every call returns one of its
\* result shapes; and whatever state the machine is left in between two
\* calls (a call may end after any byte), every byte value 0x00..0xFF takes
\* it to one of its states and delivers well-formed actions only.
C8_ParserTotal ==
    /\ sm.state \in States
    /\ \A i \in DOMAIN emitted : emitted[i].type \in ActionTypes
    /\ ret.of \in {"none", "parse", "parse_first", "parse_first_as_vec"}
    /\ call = "idle" => \A b \in Byte : WellFormed(Feed(sm, b))

\* A malformed OSC, cut short by a stray byte, came out as an Unspecified
\* command.
C8_Witness ==
    /\ call # "idle"
    /\ emitted # <<>>
    /\ IsOsc(emitted[1])
    /\ emitted[1].osc.osc = "Unspecified"
    /\ fedByte = CAN

----------------------------------------------------------------------------
(* Properties of the renderer *)

\* Where in a run of console calls those of one kind are
CallsAt(calls, op) == {i \in DOMAIN calls : calls[i].op = op}

TextChanges(list) == {i \in DOMAIN list : list[i].change = "Text"}

\* The change list [Attribute(Foreground(Red)), Text("x")]
RedText ==
    <<[change |-> "Attribute", attribute |-> Foreground(Red)],
      [change |-> "Text", text |-> <<120>>]>>

\* The foreground bits of bright red
RedWord(word) == word % 16 = FOREGROUND_INTENSITY + FOREGROUND_RED

\* render_to has returned Ok(()).
Returned == rcall = "idle" /\ result = "ok"

\* C9, as stated: [Attribute(Foreground(Red)), Text("x")] results in exactly
\* one set_attr, with the red word and before the write, and a change list
\* without a Text results in no set_attr.
C9_OneSetAttr ==
    Returned =>
        /\ changes = RedText =>
              /\ Cardinality(CallsAt(log, "set_attr")) = 1
              /\ \A i \in CallsAt(log, "set_attr") :
                    /\ RedWord(log[i].word)
                    /\ \A j \in CallsAt(log, "write") : i < j
        /\ TextChanges(changes) = {} => CallsAt(log, "set_attr") = {}

\* C9, amended: the attribute word is sent once for each Text, between the
\* flush and the write of that Text, and once more after the final flush.
\* [Attribute(Foreground(Red)), Text("x")] results in flush, set_attr, write,
\* flush, set_attr, both words red; a change list without a Text results in
\* one set_attr, the last call of render_to.
C9_AttributeEmission ==
    Returned =>
        /\ Cardinality(CallsAt(log, "set_attr")) = Cardinality(TextChanges(changes)) + 1
        /\ \A j \in CallsAt(log, "write") :
              /\ j > 2
              /\ log[j - 1].op = "set_attr"
              /\ log[j - 2].op = "flush"
        /\ Len(log) >= 2
        /\ log[Len(log) - 1] = Flush
        /\ log[Len(log)] = SetAttr(to_attr_word(current_attr))
        /\ changes = RedText =>
              /\ RedWord(to_attr_word(current_attr))
              /\ log = <<Flush, SetAttr(to_attr_word(current_attr)),
                         WriteAll(<<120>>),
                         Flush, SetAttr(to_attr_word(current_attr))>>

\* render_to has returned from [Attribute(Foreground(Red)), Text("x")].
C9_Witness == Returned /\ changes = RedText

\* A ScrollRegionUp or ScrollRegionDown change with region_size = 0
EmptyScroll(c) ==
    /\ c.change \in {"ScrollRegionUp", "ScrollRegionDown"}
    /\ c.region_size = 0

\* The change list holds one change, an empty scroll.
OnlyEmptyScroll == Len(changes) = 1 /\ EmptyScroll(changes[1])

\* C10, as stated: a render_to call whose only change is a scroll with
\* region_size = 0 makes no console call.
C10_NoConsoleCall == (rcall = "idle" /\ OnlyEmptyScroll) => log = <<>>

\* C10, amended: a scroll with region_size = 0 makes no console call of its
\* own; a render_to call whose only change it is makes the final flush and
\* set_attr and nothing else, and so never get_buffer_info or scroll_region.
C10_EmptyScrollOnlyCloses ==
    OnlyEmptyScroll =>
        /\ rcall = "render" => log = <<>>
        /\ Returned => log = <<Flush, SetAttr(to_attr_word(current_attr))>>
        /\ \A i \in DOMAIN log : log[i].op \in {"flush", "set_attr"}

\* render_to has returned from a change list that holds one ScrollRegionUp
\* with region_size = 0.
C10_Witness ==
    /\ Returned
    /\ OnlyEmptyScroll
    /\ changes[1].change = "ScrollRegionUp"

\* The console calls that read the buffer geometry or fill or scroll cells
ReadsOrFills == {"get_buffer_info", "fill_char", "fill_attr", "scroll_region"}

\* C11: in every render_to call each get_buffer_info, fill_char, fill_attr
\* and scroll_region call is preceded by a flush with no write between that
\* flush and the call.
C11_FlushDiscipline ==
    \A i \in DOMAIN log :
        log[i].op \in ReadsOrFills =>
            \E j \in 1..(i - 1) :
                /\ log[j].op = "flush"
                /\ \A k \in (j + 1)..(i - 1) : log[k].op # "write"

\* A ScrollRegionUp after a Text has read the buffer geometry while the bytes
\* of the Text were still in the write buffer.
C11_UnflushedRead ==
    /\ Len(changes) = 2
    /\ changes[1].change = "Text"
    /\ changes[2].change = "ScrollRegionUp"
    /\ Len(log) >= 4
    /\ log[3].op = "write"
    /\ log[4].op = "get_buffer_info"
    /\ console.pending > 0

\* This step processed one change of the list, the last of changes'.
Processed == rcall = "render" /\ Len(changes') = Len(changes) + 1

\* The console calls this step made
StepCalls == SubSeq(log', Len(log) + 1, Len(log'))

\* The BufferInfo a get_buffer_info that follows a flush returns in this step
InfoAfterFlush == ConsoleAfter(console, Flush)

\* The column and the row a Position stands for
ResolvedX(x, info) ==
    CASE x.kind = "Absolute" -> x.v
      [] x.kind = "EndRelative" -> info.dwSize.X - x.v
      [] x.kind = "Relative" -> info.dwCursorPosition.X + x.v
      [] x.kind = "NoChange" -> info.dwCursorPosition.X

ResolvedY(y, info) ==
    CASE y.kind = "Absolute" -> info.srWindow.Top + y.v
      [] y.kind = "EndRelative" -> info.srWindow.Bottom - y.v
      [] y.kind = "Relative" -> info.dwCursorPosition.Y + y.v
      [] y.kind = "NoChange" -> info.dwCursorPosition.Y

\* C12: the y a CursorPosition change passes to set_cursor_position is
\* srWindow.Top + y for Absolute(y), srWindow.Bottom - d for EndRelative(d),
\* cursor.Y + d for Relative(d) and cursor.Y for NoChange; the x is x for
\* Absolute(x), dwSize.X - d for EndRelative(d), cursor.X + d for Relative(d)
\* and cursor.X for NoChange, all of them read from the BufferInfo the arm
\* gets after its flush (positions within the console's 16-bit coordinates).
C12_CursorResolution ==
    [][(/\ Processed
        /\ changes'[Len(changes')].change = "CursorPosition"
        /\ Len(StepCalls) = 3)
       => LET c == changes'[Len(changes')]
              set == StepCalls[3]
          IN  /\ StepCalls[1] = Flush
              /\ StepCalls[2] = GetBufferInfo
              /\ set.op = "set_cursor_position"
              /\ set.x = ResolvedX(c.x, InfoAfterFlush)
              /\ set.y = ResolvedY(c.y, InfoAfterFlush)]_vars

\* CursorPosition { x: Absolute(0), y: Absolute(0) } has put the cursor on
\* the first row of a viewport that has scrollback above it.
C12_Witness ==
    /\ rcall = "render"
    /\ changes # <<>>
    /\ changes[Len(changes)] =
          [change |-> "CursorPosition", x |-> Absolute(0), y |-> Absolute(0)]
    /\ console.srWindow.Top = 1
    /\ log[Len(log)] = SetCursorPosition(0, 1)
    /\ console.dwCursorPosition = [X |-> 0, Y |-> 1]

\* The console calls that change the character or the attribute of cells
ChangesCells == {"fill_char", "fill_attr", "scroll_region", "write"}

\* The rows of the cells a fill_char or fill_attr covers: count cells from
\* (x, y) on, row after row across the full width of the buffer
FilledRows(c, info) ==
    {(c.y * info.dwSize.X + c.x + k) \div info.dwSize.X : k \in 0..(c.count - 1)}

\* C13: whatever the buffer geometry and the cursor position, the calls of a
\* ClearScreen change that touch cells are fills, and every cell they fill
\* lies in rows srWindow.Top .. dwSize.Y - 1: no cell of a row above
\* srWindow.Top has its character or its attribute changed.
C13_ScrollbackPreserved ==
    [][(Processed /\ changes'[Len(changes')].change = "ClearScreen")
       => \A i \in DOMAIN StepCalls :
              StepCalls[i].op \in ChangesCells =>
                  /\ StepCalls[i].op \in {"fill_char", "fill_attr"}
                  /\ StepCalls[i].count > 0
                  /\ \A row \in FilledRows(StepCalls[i], InfoAfterFlush) :
                        /\ row >= InfoAfterFlush.srWindow.Top
                        /\ row <= InfoAfterFlush.dwSize.Y - 1]_vars

\* ClearScreen has run to its end on a console with two rows of scrollback
\* above the viewport and the cursor in the first of them.
C13_Witness ==
    /\ rcall = "render"
    /\ Len(changes) = 1
    /\ changes[1].change = "ClearScreen"
    /\ console.srWindow.Top = 2
    /\ Len(log) = 5
    /\ log[3] = FillChar(SPACE, 0, 2, 6)
    /\ log[4].op = "fill_attr"
    /\ log[5] = SetCursorPosition(0, 2)

ClearKinds == {"ClearScreen", "ClearToEndOfLine", "ClearToEndOfScreen"}

\* C14: when a console call fails during render_to, render_to returns the
\* error at once: the failed call is the last console call made (no later
\* change is processed, nothing is retried, no final flush or set_attr), no
\* console call follows until render_to is called again, and current_attr
\* keeps what the changes processed so far had made of it, the assignment of
\* a Clear change whose flush had succeeded included.
C14_ErrorPropagation ==
    [][/\ (rcall = "render" /\ failed' # 0) =>
              /\ rcall' = "idle"
              /\ result' = "err"
              /\ failed' = Len(log')
              /\ failed' > Len(log)
              /\ Len(changes') <= Len(changes) + 1
              /\ current_attr' =
                    (IF /\ Processed
                        /\ changes'[Len(changes')].change \in ClearKinds
                        /\ failed' > Len(log) + 1
                     THEN ClearedAttributes(changes'[Len(changes')].color)
                     ELSE current_attr)
       /\ (rcall = "render" /\ result' = "err") => failed' # 0
       /\ result = "err" =>
              /\ rcall = "idle"
              /\ log' # log => log' = <<>> /\ result' = "none"
              /\ changes' # changes => changes' = <<>>]_vars

\* The set_attr of a Text has failed after an Attribute change: render_to
\* has returned the error, the set_attr is the last call made and
\* current_attr keeps the red foreground.
C14_Witness ==
    /\ rcall = "idle"
    /\ result = "err"
    /\ changes = RedText
    /\ log = <<Flush, SetAttr(to_attr_word(current_attr))>>
    /\ failed = 2
    /\ current_attr.foreground = Red

\* A renderer is constructed in this step.
Constructed == rcall = "idle" /\ rcall' = "idle" /\ current_attr' = DefaultAttributes

\* C15, as stated: current_attr starts at CellAttributes::default() and is
\* changed only by Attribute and AllAttributes changes; every other change
\* kind leaves it unchanged.
C15_OnlyAttributeChanges ==
    /\ current_attr = DefaultAttributes
    /\ [][current_attr' # current_attr =>
              \/ Constructed
              \/ /\ Processed
                 /\ changes'[Len(changes')].change \in {"Attribute", "AllAttributes"}]_vars

\* C15, amended: current_attr starts at CellAttributes::default() and is
\* changed only by Attribute and AllAttributes changes and by ClearScreen,
\* ClearToEndOfLine and ClearToEndOfScreen, which set it to the default
\* attributes with the background they carry once their flush has succeeded;
\* every other change kind (Text, CursorPosition, Image, ScrollRegionUp/Down,
\* CursorColor, CursorShape, Title) and the end of render_to leave it
\* unchanged.
C15_AttributeFrame ==
    /\ current_attr = DefaultAttributes
    /\ [][/\ ~Processed => current_attr' = current_attr \/ Constructed
          /\ Processed =>
                LET c == changes'[Len(changes')]
                IN  /\ c.change \in ClearKinds =>
                          \/ current_attr' = ClearedAttributes(c.color)
                          \/ /\ current_attr' = current_attr
                             /\ failed' = Len(log) + 1
                    /\ c.change \notin ClearKinds \cup {"Attribute", "AllAttributes"} =>
                          current_attr' = current_attr]_vars

\* A ClearScreen(Navy) after Attribute(Foreground(Red)) has left the default
\* attributes on a navy background.
C15_Witness ==
    /\ rcall = "render"
    /\ Len(changes) = 2
    /\ changes[1] = [change |-> "Attribute", attribute |-> Foreground(Red)]
    /\ changes[2] = [change |-> "ClearScreen", color |-> Navy]
    /\ current_attr = ClearedAttributes(Navy)
    /\ current_attr.foreground = Default

\* The second of two bytes fed from any state: a CSI final byte, a control
\* that cuts a string short, a printable byte
SecondBytes == {109, CAN, 49}

\* C16: parse delivers actions to the sink in input-byte order.  From every
\* state a parse call is in and for every two bytes it is fed, the sink has
\* received all the actions of the first byte, in their order, before the
\* second byte is fed to the state machine, which starts from the state the
\* first byte left; the actions of the second byte follow.
C16_ParserOrdering ==
    call = "parse" =>
        \A a \in Alphabet, b \in SecondBytes :
            LET one == ParseIter(sm, a)
                two == ParseIter(one.sm, b)
                both == Parse(sm, <<a, b>>)
            IN  /\ Parse(sm, <<a>>).out = one.out
                /\ both.out = one.out \o two.out
                /\ both.last = two.out
                /\ both.sm = two.sm

\* Inside a parse call the parser holds an SGR with two parameters: the final
\* byte and a printable byte after it deliver two CSI actions and then a
\* Print.
C16_Witness ==
    /\ call = "parse"
    /\ sm.state = "CsiParam"
    /\ LET r == Parse(sm, <<109, 49>>)
       IN  /\ Len(r.out) = 3
           /\ IsCsi(r.out[1])
           /\ IsCsi(r.out[2])
           /\ r.out[3].type = "Print"
           /\ r.last = <<r.out[3]>>

\* The Actions of the tests
PrintOf(c) == [type |-> "Print", c |-> c]
SgrOf(p) == [type |-> "CSI", csi |-> [csi |-> "Sgr", param |-> p, ignored |-> FALSE]]
TitleOf(text) ==
    [type |-> "OperatingSystemCommand",
     osc |-> [osc |-> "SetIconNameAndWindowTitle", text |-> text]]
UnspecifiedOf(fields) ==
    [type |-> "OperatingSystemCommand", osc |-> [osc |-> "Unspecified", fields |-> fields]]
EscOf(intermediate, control) ==
    [type |-> "Esc", esc |-> [intermediate |-> intermediate, control |-> control]]

\* "hello" and "532534523"
Hello == <<104, 101, 108, 108, 111>>
Selector == <<53, 51, 50, 53, 51, 52, 53, 50, 51>>

\* The inputs of basic_parse, basic_bold, basic_osc and basic_esc with the
\* Actions the tests expect of them
RoundTripTests ==
    {[input |-> Hello, actions |-> [i \in 1..5 |-> PrintOf(Hello[i])]],
     [input |-> <<ESC, 91, 49, 109, 98>>, actions |-> <<SgrOf(1), PrintOf(98)>>],
     [input |-> <<ESC, 93, 48, SEMI>> \o Hello \o <<BEL>>,
      actions |-> <<TitleOf(Hello)>>],
     [input |-> <<ESC, 93>> \o Selector \o <<SEMI>> \o Hello \o <<BEL>>,
      actions |-> <<UnspecifiedOf(<<Selector, Hello>>)>>],
     [input |-> <<ESC, 72>>, actions |-> <<EscOf(None, 72)>>],
     [input |-> <<ESC, 37, 72>>, actions |-> <<EscOf(Some(37), 72)>>]}

\* On a fresh Parser each input of the tests parses to the Actions the test
\* expects, and they encode to the input.
TestsRoundTrip ==
    sm = NewParser =>
        \A t \in RoundTripTests :
            /\ Parse(sm, t.input).out = t.actions
            /\ encode(Parse(sm, t.input).out) = t.input

\* Parsing the encoding of a on a fresh Parser yields [a].
RoundTrips(a) == Parse(NewParser, Encode(a)).out = <<a>>

\* Actions built by hand: the Print of a line feed among them
BuiltActions == {PrintOf(120), PrintOf(10), SgrOf(1), TitleOf(Hello), EscOf(None, 72)}

\* C17, as stated: every Action that has an encoded form round-trips, and
\* the inputs of the tests are reproduced by encoding the Actions parsed.
C17_EveryActionRoundTrips ==
    /\ \A a \in BuiltActions : RoundTrips(a)
    /\ \A i \in DOMAIN emitted : HasEncoding(emitted[i]) => RoundTrips(emitted[i])
    /\ TestsRoundTrip

\* After ESC these bytes open a CSI, an OSC, a DCS or an SOS/PM/APC string.
OpensSequence(b) == b \in {80, 88, 91, 93, 94, 95}

\* An Esc that esc_dispatch delivers only for a sequence of two intermediates,
\* which it drops: written back, ESC and the final byte open another sequence.
LostIntermediates(a) ==
    /\ a.type = "Esc"
    /\ a.esc.intermediate = None
    /\ OpensSequence(a.esc.control)

\* C17, amended: every Print, SGR, OperatingSystemCommand and Esc Action the
\* parser delivers round-trips (parsing its encoding on a fresh Parser yields
\* exactly that one Action), except an Esc without intermediate whose final
\* byte opens another sequence after ESC, the encoding of which parses to no
\* Action; and the inputs of the tests (printable text, an SGR of one
\* parameter, an OSC title, an unknown OSC, ESC H, ESC % H) are reproduced by
\* encoding the Actions parsed.
C17_DeliveredActionsRoundTrip ==
    /\ \A i \in DOMAIN emitted :
          HasEncoding(emitted[i]) =>
              IF LostIntermediates(emitted[i])
              THEN Parse(NewParser, Encode(emitted[i])).out = <<>>
              ELSE RoundTrips(emitted[i])
    /\ TestsRoundTrip

\* The parser has delivered the Print of a two-byte character, which encodes
\* to the two bytes it was parsed from.
C17_Witness ==
    /\ call = "parse"
    /\ emitted = <<PrintOf(233)>>
    /\ Encode(emitted[1]) = <<195, 169>>
    /\ RoundTrips(emitted[1])

\* What an Image of width w and height h is to do with the cursor at cur:
\* after the flush and the read of the cursor, h fill_char(' ', cx, cy + k, w)
\* for k = 0..h-1, then the cursor to (cx + w, cy)
ImageCalls(w, h, cur) ==
    <<Flush, GetBufferInfo>>
    \o [k \in 1..h |-> FillChar(SPACE, cur.X, cur.Y + (k - 1), w)]
    \o <<SetCursorPosition(cur.X + w, cur.Y)>>

\* C18: an Image change of width w and height h processed with the cursor at
\* (cx, cy) issues exactly h fill_char(' ', cx, cy + k, w) calls for
\* k = 0..h-1 in increasing k, issues no fill_attr, and then sets the cursor
\* to (cx + w, cy); when a call fails, the calls made are those up to it.
C18_ImageFallback ==
    [][(Processed /\ changes'[Len(changes')].change = "Image")
       => LET c == changes'[Len(changes')]
              want == ImageCalls(c.width, c.height, InfoAfterFlush.dwCursorPosition)
          IN  /\ Len(StepCalls) <= Len(want)
              /\ StepCalls = SubSeq(want, 1, Len(StepCalls))
              /\ failed' = 0 =>
                    /\ StepCalls = want
                    /\ Cardinality(CallsAt(StepCalls, "fill_char")) = c.height
                    /\ console'.dwCursorPosition =
                          [X |-> InfoAfterFlush.dwCursorPosition.X + c.width,
                           Y |-> InfoAfterFlush.dwCursorPosition.Y]
              /\ CallsAt(StepCalls, "fill_attr") = {}]_vars

\* An Image of 2 by 2 with the cursor at (1, 2) has blanked two cells of rows
\* 2 and 3 and left the cursor at (3, 2).
C18_Witness ==
    /\ rcall = "render"
    /\ Len(changes) = 1
    /\ changes[1] = [change |-> "Image", width |-> 2, height |-> 2]
    /\ log = <<Flush, GetBufferInfo, FillChar(SPACE, 1, 2, 2),
               FillChar(SPACE, 1, 3, 2), SetCursorPosition(3, 2)>>
    /\ console.dwCursorPosition = [X |-> 3, Y |-> 2]

\* C19: every render_to call that returns Ok ends with a flush followed by
\* set_attr(to_attr_word(current_attr)) as its last two console calls, where
\* current_attr is the value after all the changes of the list were applied;
\* for the empty change list they are its only calls.
C19_ClosingCalls ==
    [][(rcall = "render" /\ result' = "ok") =>
          /\ rcall' = "idle"
          /\ changes' = changes
          /\ current_attr' = current_attr
          /\ log' = log \o <<Flush, SetAttr(to_attr_word(current_attr))>>
          /\ changes = <<>> => log' = <<Flush, SetAttr(to_attr_word(current_attr))>>]_vars

\* render_to has returned Ok from the empty change list on a renderer whose
\* earlier call left the text underlined.
C19_Witness ==
    /\ Returned
    /\ changes = <<>>
    /\ current_attr.underline = "Single"
    /\ log = <<Flush, SetAttr(to_attr_word(current_attr))>>
    /\ log[2].word >= COMMON_LVB_UNDERSCORE

\* The input of basic_bold_italic and the Actions the test expects
BoldItalic == <<ESC, 91, 49, SEMI, 51, 109, 98>>
BoldItalicActions == <<SgrOf(1), SgrOf(3), PrintOf(98)>>

\* C20: when the final byte of a CSI stands for several logical actions, as
\* the 'm' of an SGR with several parameters does, parse delivers one
\* Action::CSI for each, in the left-to-right order of the parameters, and all
\* of them before any action of a later byte: ESC [ 1 ; 3 m b delivers the
\* bold, the italic and then the Print, and from any state inside the
\* parameters of a CSI the bytes 'm' '1' deliver one CSI per parameter, in
\* order, and then the Print.
C20_CsiExpansion ==
    /\ sm = NewParser => Parse(sm, BoldItalic).out = BoldItalicActions
    /\ (sm.state \in {"CsiEntry", "CsiParam"} /\ sm.intermediates = <<>>) =>
          LET ps == FinalParams(sm)
              r == Parse(sm, <<109, 49>>)
          IN  /\ Len(r.out) = Len(ps) + 1
              /\ \A i \in 1..Len(ps) :
                    r.out[i] = [type |-> "CSI",
                                csi |-> [csi |-> "Sgr", param |-> ps[i],
                                         ignored |-> sm.ignoring]]
              /\ r.out[Len(ps) + 1] = PrintOf(49)
              /\ r.last = <<PrintOf(49)>>

\* The parser is inside ESC [ 1 ; : the final byte 'm' and a '1' after it
\* deliver the CSI of parameter 1, the CSI of the empty parameter and the
\* Print, in this order.
C20_Witness ==
    /\ sm.state = "CsiParam"
    /\ FinalParams(sm) = <<1, 0>>
    /\ Parse(sm, <<109, 49>>).out = <<SgrOf(1), SgrOf(0), PrintOf(49)>>

\* C21: the Esc action is built with intermediate = Some(b) when exactly one
\* intermediate byte b was collected before the final byte and with
\* intermediate = None in every other case (none, or more than one); the
\* final byte is always passed as the control.
C21_EscDispatch ==
    [][Stepped =>
          /\ (/\ sm.state \in {"Escape", "EscapeIntermediate"}
              /\ StateChange(sm, fedByte').act = "esc_dispatch") =>
                 emitted' = <<EscOf(IF Len(sm.intermediates) = 1
                                    THEN Some(sm.intermediates[1])
                                    ELSE None,
                                    fedByte')>>
          /\ \A i \in DOMAIN emitted' :
                emitted'[i].type = "Esc" =>
                    /\ sm.state \in {"Escape", "EscapeIntermediate"}
                    /\ StateChange(sm, fedByte').act = "esc_dispatch"]_vars

\* ESC % % P: the final byte after two intermediates has delivered an Esc
\* without intermediate (ESC P alone opens a DCS and delivers no Esc).
C21_Witness ==
    /\ call = "parse"
    /\ fedByte = 80
    /\ emitted = <<EscOf(None, 80)>>

\* The byte fed in this step is one the state machine executes as a control.
Executes(s, b) ==
    \E i \in DOMAIN Advance(s, b).hooks : Advance(s, b).hooks[i].hook = "execute"

----------------------------------------------------------------------------
(* Properties of the attribute word *)

\* The fixed table: what each of the sixteen colours is made of
AnsiTable ==
    <<{}, {"R"}, {"G"}, {"R", "G"}, {"B"}, {"R", "B"}, {"G", "B"}, {"R", "G", "B"},
      {"I"}, {"I", "R"}, {"I", "G"}, {"I", "R", "G"}, {"I", "B"}, {"I", "R", "B"},
      {"I", "G", "B"}, {"I", "R", "G", "B"}>>

\* The nibble of a colour of the table: bit 0 blue, bit 1 green, bit 2 red,
\* bit 3 intensity
Nibble(made) ==
    (IF "B" \in made THEN 1 ELSE 0) + (IF "G" \in made THEN 2 ELSE 0)
    + (IF "R" \in made THEN 4 ELSE 0) + (IF "I" \in made THEN 8 ELSE 0)

\* The parts of a word: bits 0..3, bits 4..7, bits 8..13, bit 14, bit 15
ForegroundNibble(word) == word % 16
BackgroundNibble(word) == (word \div 16) % 16
UnusedBits(word) == (word \div 256) % 64
ReverseBit(word) == (word \div 16384) % 2
UnderscoreBit(word) == word \div 32768

HasIndex(color) == color.kind \in {"PaletteIndex", "TrueColorWithPaletteFallback"}

\* C23: for every CellAttributes value the foreground contributes to bits
\* 0..3 of to_attr_word only and the background to bits 4..7 only; palette
\* indices 0..15 go through the fixed table Black, Maroon, Green, Olive,
\* Navy, Purple, Teal, Silver, Grey, Red, Lime, Yellow, Blue, Fuschia, Aqua,
\* White; Default and TrueColorWithDefaultFallback give a bright-white
\* foreground and a black background; and no bit is set beside the two
\* nibbles, the reverse-video bit and the underscore bit.
C23_WordLayout ==
    LET word == to_attr_word(current_attr)
        fg == current_attr.foreground
        bg == current_attr.background
    IN  /\ word \in 0..65535
        /\ UnusedBits(word) = 0
        /\ ReverseBit(word) = (IF current_attr.reverse THEN 1 ELSE 0)
        /\ UnderscoreBit(word) = (IF current_attr.underline # "None" THEN 1 ELSE 0)
        /\ (HasIndex(fg) /\ fg.idx \in 0..15) =>
              ForegroundNibble(word) = Nibble(AnsiTable[fg.idx + 1])
        /\ (HasIndex(bg) /\ bg.idx \in 0..15) =>
              BackgroundNibble(word) = Nibble(AnsiTable[bg.idx + 1])
        /\ ~HasIndex(fg) => ForegroundNibble(word) = Nibble({"I", "R", "G", "B"})
        /\ ~HasIndex(bg) => BackgroundNibble(word) = 0
        /\ to_attr_word([current_attr EXCEPT !.foreground = Default]) \div 16
              = word \div 16
        /\ LET other == to_attr_word([current_attr EXCEPT !.background = Default])
           IN  /\ other % 16 = word % 16
               /\ other \div 256 = word \div 256

\* render_to has sent the word of a red foreground on a navy background,
\* reversed and doubly underlined: 12 + 16 + 16384 + 32768.
C23_Witness ==
    /\ Returned
    /\ current_attr.foreground = Red
    /\ current_attr.background = Navy
    /\ current_attr.reverse
    /\ current_attr.underline = "Double"
    /\ log = <<Flush, SetAttr(49180)>>

\* The one field of CellAttributes an AttributeChange names, beside its tag
FieldOf(a) == CHOOSE f \in DOMAIN a : f # "attribute"

\* C24: Attribute(..) and AllAttributes(..) changes update current_attr (the
\* one field the AttributeChange names, or all of them) and make no console
\* call of any kind; CursorColor, CursorShape and Title changes make no
\* console call and leave current_attr unchanged.  None of them can fail.
C24_SilentChanges ==
    [][Processed =>
          LET c == changes'[Len(changes')]
              silent == /\ StepCalls = <<>>
                        /\ console' = console
                        /\ failed' = 0
                        /\ rcall' = "render"
          IN  /\ c.change = "Attribute" =>
                    /\ silent
                    /\ DOMAIN current_attr' = DOMAIN current_attr
                    /\ \A f \in DOMAIN current_attr :
                          current_attr'[f] = (IF f = FieldOf(c.attribute)
                                              THEN c.attribute[f]
                                              ELSE current_attr[f])
              /\ c.change = "AllAttributes" => silent /\ current_attr' = c.all
              /\ c.change \in {"CursorColor", "CursorShape", "Title"} =>
                    silent /\ current_attr' = current_attr]_vars

\* An AllAttributes and a Title have been processed: the console was not
\* called and current_attr is what AllAttributes carried.
C24_Witness ==
    /\ rcall = "render"
    /\ Len(changes) = 2
    /\ changes[1].change = "AllAttributes"
    /\ changes[2].change = "Title"
    /\ log = <<>>
    /\ console.pending = 0
    /\ current_attr = changes[1].all
    /\ current_attr # DefaultAttributes

\* The attribute word of the default attributes on a background: bright-white
\* foreground, the background's nibble in bits 4..7, nothing else
ClearedWord(color) ==
    Nibble({"I", "R", "G", "B"})
    + 16 * (IF HasIndex(color) /\ color.idx \in 0..15
            THEN Nibble(AnsiTable[color.idx + 1]) ELSE 0)

\* The last change of a list that assigns current_attr, 0 when there is none
LastAssignment(list) ==
    LET at == {i \in DOMAIN list :
                  list[i].change \in ClearKinds \cup {"Attribute", "AllAttributes"}}
    IN  IF at = {} THEN 0 ELSE CHOOSE i \in at : \A j \in at : j <= i

\* C25: ClearScreen(bg), ClearToEndOfLine(bg) and ClearToEndOfScreen(bg) each
\* set current_attr to the default attributes with only the background
\* replaced by bg, whatever foreground, reverse, underline, intensity or
\* hyperlink earlier changes had set; the fill_attr words they write, and the
\* set_attr word of every Text that follows with no attribute change in
\* between, are the word of this reset value.
C25_ClearResets ==
    [][Processed =>
          LET c == changes'[Len(changes')]
              k == LastAssignment(changes)
          IN  /\ (c.change \in ClearKinds /\ failed' # Len(log) + 1) =>
                    /\ current_attr'.background = c.color
                    /\ [current_attr' EXCEPT !.background = Default]
                          = DefaultAttributes
                    /\ \A i \in DOMAIN StepCalls :
                          StepCalls[i].op = "fill_attr" =>
                              StepCalls[i].word = ClearedWord(c.color)
                    /\ failed' = 0 =>
                          \E i \in DOMAIN StepCalls : StepCalls[i].op = "fill_attr"
              /\ (/\ c.change = "Text"
                  /\ k # 0
                  /\ changes[k].change \in ClearKinds
                  /\ Len(StepCalls) >= 2) =>
                    StepCalls[2] = SetAttr(ClearedWord(changes[k].color))]_vars

\* ClearToEndOfLine(Navy) and a Text on a renderer that had a red foreground
\* on green, reversed, underlined, bold and linked: the fill and the Text
\* carry the word of bright white on navy.
C25_Witness ==
    /\ rcall = "render"
    /\ Len(changes) = 2
    /\ changes[1] = [change |-> "ClearToEndOfLine", color |-> Navy]
    /\ changes[2].change = "Text"
    /\ Len(log) = 7
    /\ log[4].op = "fill_attr"
    /\ log[4].word = 31
    /\ log[6] = SetAttr(31)
    /\ current_attr = ClearedAttributes(Navy)

\* s is the beginning of t.
IsPrefix(s, t) == Len(s) <= Len(t) /\ s = SubSeq(t, 1, Len(s))

\* C26: after flush and one get_buffer_info, ClearScreen calls
\* set_viewport(0, Top, Right - Left, Bottom) if and only if srWindow.Left is
\* not 0, then fill_char(' ') and fill_attr(word), both from (0, srWindow.Top)
\* on and with count dwSize.X * (dwSize.Y - srWindow.Top), then
\* set_cursor_position(0, srWindow.Top), in that order; a call that fails is
\* the last of them.
C26_ClearScreenGeometry ==
    [][(Processed /\ changes'[Len(changes')].change = "ClearScreen") =>
          LET info == InfoAfterFlush
              win == info.srWindow
              count == info.dwSize.X * (info.dwSize.Y - win.Top)
              word == ClearedWord(changes'[Len(changes')].color)
              whole ==
                  <<Flush, GetBufferInfo>>
                  \o (IF win.Left # 0
                      THEN <<SetViewport(0, win.Top, win.Right - win.Left, win.Bottom)>>
                      ELSE <<>>)
                  \o <<FillChar(SPACE, 0, win.Top, count),
                       FillAttr(word, 0, win.Top, count),
                       SetCursorPosition(0, win.Top)>>
          IN  /\ failed' = 0 => StepCalls = whole
              /\ failed' # 0 => IsPrefix(StepCalls, whole) /\ StepCalls # <<>>
              /\ Cardinality({i \in DOMAIN StepCalls :
                                    StepCalls[i].op = "get_buffer_info"}) <= 1
              /\ (\E i \in DOMAIN StepCalls : StepCalls[i].op = "set_viewport")
                    => win.Left # 0]_vars

\* ClearScreen on a console whose viewport was scrolled one column to the
\* right: the viewport is moved back before the twelve cells are filled.
C26_Witness ==
    /\ rcall = "render"
    /\ Len(changes) = 1
    /\ changes[1].change = "ClearScreen"
    /\ Len(log) = 6
    /\ log[3] = SetViewport(0, 0, 2, 2)
    /\ log[4] = FillChar(SPACE, 0, 0, 12)
    /\ log[5].op = "fill_attr"
    /\ log[6] = SetCursorPosition(0, 0)
    /\ console.srWindow.Left = 0
    /\ console.srWindow.Right = 2

\* The cells a fill_char or fill_attr covers, numbered row after row from the
\* first cell of the buffer
FilledCells(c, info) ==
    {c.y * info.dwSize.X + c.x + k : k \in 0..(c.count - 1)}

\* All the cells the calls of one kind cover
CellsOf(calls, op, info) ==
    UNION {FilledCells(calls[i], info) : i \in {j \in DOMAIN calls : calls[j].op = op}}

NonNegative(n) == IF n > 0 THEN n ELSE 0

\* C27: ClearToEndOfLine fills spaces and the attribute word from the cursor
\* (cx, cy) for max(dwSize.X - cx, 0) cells and does not move the cursor;
\* ClearToEndOfScreen does the same and then fills
\* dwSize.X * max(dwSize.Y - (cy + 1), 0) cells from (0, cy + 1) on; the cells
\* ClearToEndOfScreen clears are exactly those from the cursor to the end of
\* the buffer, and no cell before the cursor is changed by either.
C27_ClearToEnd ==
    [][(/\ Processed
        /\ changes'[Len(changes')].change \in {"ClearToEndOfLine", "ClearToEndOfScreen"}) =>
          LET c == changes'[Len(changes')]
              info == InfoAfterFlush
              cx == info.dwCursorPosition.X
              cy == info.dwCursorPosition.Y
              at == cy * info.dwSize.X + cx
              cells == info.dwSize.X * info.dwSize.Y
              word == ClearedWord(c.color)
              width == NonNegative(info.dwSize.X - cx)
              below == info.dwSize.X * NonNegative(info.dwSize.Y - (cy + 1))
              line == <<Flush, GetBufferInfo, FillChar(SPACE, cx, cy, width),
                        FillAttr(word, cx, cy, width)>>
              whole == IF c.change = "ClearToEndOfLine" THEN line
                       ELSE line \o <<FillChar(SPACE, 0, cy + 1, below),
                                      FillAttr(word, 0, cy + 1, below)>>
          IN  /\ failed' = 0 => StepCalls = whole
              /\ failed' # 0 => IsPrefix(StepCalls, whole) /\ StepCalls # <<>>
              /\ failed' # Len(log) + 1 => console'.dwCursorPosition = info.dwCursorPosition
              /\ \A n \in CellsOf(StepCalls, "fill_char", info)
                          \cup CellsOf(StepCalls, "fill_attr", info) : n >= at
              /\ (failed' = 0 /\ c.change = "ClearToEndOfScreen") =>
                    /\ CellsOf(StepCalls, "fill_char", info) = at..(cells - 1)
                    /\ CellsOf(StepCalls, "fill_attr", info) = at..(cells - 1)
              /\ (failed' = 0 /\ c.change = "ClearToEndOfLine") =>
                    CellsOf(StepCalls, "fill_char", info)
                        = at..((cy + 1) * info.dwSize.X - 1)]_vars

\* ClearToEndOfScreen after a Text, with the cursor in the middle of the
\* last row but one: three cells of that row and the four of the next are
\* filled, and the cursor stays.
C27_Witness ==
    /\ rcall = "render"
    /\ Len(changes) = 2
    /\ changes[1].change = "Text"
    /\ changes[2].change = "ClearToEndOfScreen"
    /\ console.dwSize = [X |-> 4, Y |-> 4]
    /\ console.dwCursorPosition = [X |-> 2, Y |-> 2]
    /\ Len(log) = 9
    /\ log[6] = FillChar(SPACE, 2, 2, 2)
    /\ log[8] = FillChar(SPACE, 0, 3, 4)

\* C28: ScrollRegionUp and ScrollRegionDown with region_size > 0 issue exactly
\* one get_buffer_info and one scroll_region call, the latter on the
\* rectangle left = srWindow.Left, right = srWindow.Right,
\* top = srWindow.Top + first_row, bottom = srWindow.Top + first_row +
\* region_size, with dx = 0, dy = -scroll_count for Up and +scroll_count for
\* Down, and with the fill attribute to_attr_word(current_attr) (rows and
\* counts within the console's 16-bit coordinates; a get_buffer_info that
\* fails is the only call).
C28_ScrollRegion ==
    [][(/\ Processed
        /\ changes'[Len(changes')].change \in {"ScrollRegionUp", "ScrollRegionDown"}
        /\ changes'[Len(changes')].region_size > 0) =>
          LET c == changes'[Len(changes')]
              win == console.srWindow
              whole ==
                  <<GetBufferInfo,
                    [op |-> "scroll_region",
                     left |-> win.Left,
                     top |-> win.Top + c.first_row,
                     right |-> win.Right,
                     bottom |-> win.Top + c.first_row + c.region_size,
                     dx |-> 0,
                     dy |-> IF c.change = "ScrollRegionUp"
                            THEN 0 - c.scroll_count ELSE c.scroll_count,
                     attr |-> to_attr_word(current_attr)]>>
          IN  /\ failed' # Len(log) + 1 => StepCalls = whole
              /\ failed' = Len(log) + 1 => StepCalls = <<GetBufferInfo>>
              /\ current_attr' = current_attr]_vars

\* ScrollRegionDown { first_row: 1, region_size: 2, scroll_count: 1 } after
\* Attribute(Reverse(true)), on a viewport that starts at row 1
C28_Witness ==
    /\ rcall = "render"
    /\ Len(changes) = 2
    /\ changes[1] = [change |-> "Attribute", attribute |-> Reverse(TRUE)]
    /\ changes[2].change = "ScrollRegionDown"
    /\ log = <<GetBufferInfo, ScrollRegion(0, 2, 3, 4, 0, 1, 16399)>>

\* The console when call j of this step is made
ConsoleBefore(j) == ConsoleAfterAll(console, SubSeq(StepCalls, 1, j - 1))

\* C29: Text(s) issues, in this order and with nothing in between, flush,
\* set_attr(to_attr_word(current_attr)) and the write of the UTF-8 bytes of
\* s; it makes no get_buffer_info and no set_cursor_position call; and since
\* a flush precedes every set_attr, the console has no text waiting to be
\* placed when its attribute word changes: text written by an earlier Text
\* is placed under the word that was current when it was written.
C29_TextCalls ==
    [][/\ (Processed /\ changes'[Len(changes')].change = "Text") =>
              LET c == changes'[Len(changes')]
                  whole == <<Flush, SetAttr(to_attr_word(current_attr)),
                             [op |-> "write", bytes |-> AsBytes(c.text)]>>
              IN  /\ failed' = 0 => StepCalls = whole
                  /\ failed' # 0 => IsPrefix(StepCalls, whole) /\ StepCalls # <<>>
                  /\ \A i \in DOMAIN StepCalls :
                        StepCalls[i].op \notin {"get_buffer_info", "set_cursor_position"}
                  /\ failed' = 0 =>
                        /\ ConsoleBefore(3).pending = 0
                        /\ console'.pending = Len(AsBytes(c.text))
                        /\ console'.dwCursorPosition = InfoAfterFlush.dwCursorPosition
                  /\ current_attr' = current_attr
       /\ \A j \in DOMAIN StepCalls :
              StepCalls[j].op = "set_attr" =>
                  /\ j > 1
                  /\ StepCalls[j - 1] = Flush
                  /\ ConsoleBefore(j).pending = 0]_vars

\* Two Text changes: the "x" of the first was placed, and moved the cursor,
\* before the second set the attribute word, and the two bytes of the second
\* wait for the next flush.
C29_Witness ==
    /\ rcall = "render"
    /\ Len(changes) = 2
    /\ log = <<Flush, SetAttr(15), WriteAll(<<120>>),
               Flush, SetAttr(15), WriteAll(<<195, 169>>)>>
    /\ console.dwCursorPosition = [X |-> 2, Y |-> 2]
    /\ console.pending = 2

\* The colours of the 256-colour palette above the first sixteen: a cube of
\* six levels of red, green and blue from 16 on, a ramp of greys from 232 on
CubeLevel(n) == IF n = 0 THEN 0 ELSE 55 + 40 * n

PaletteRgb(i) ==
    IF i >= 232
    THEN LET grey == 8 + 10 * (i - 232) IN <<grey, grey, grey>>
    ELSE <<CubeLevel(((i - 16) \div 36) % 6), CubeLevel(((i - 16) \div 6) % 6),
           CubeLevel((i - 16) % 6)>>

\* The sixteen colours, Black to White, as red, green and blue
AnsiRgb ==
    <<<<0, 0, 0>>, <<128, 0, 0>>, <<0, 128, 0>>, <<128, 128, 0>>,
      <<0, 0, 128>>, <<128, 0, 128>>, <<0, 128, 128>>, <<192, 192, 192>>,
      <<128, 128, 128>>, <<255, 0, 0>>, <<0, 255, 0>>, <<255, 255, 0>>,
      <<0, 0, 255>>, <<255, 0, 255>>, <<0, 255, 255>>, <<255, 255, 255>>>>

Distance(p, q) ==
    (p[1] - q[1]) * (p[1] - q[1]) + (p[2] - q[2]) * (p[2] - q[2])
    + (p[3] - q[3]) * (p[3] - q[3])

\* The nearest of the sixteen colours to colour i of the palette, as its
\* place in the table (1 for Black)
NearestAnsi(i) ==
    CHOOSE k \in DOMAIN AnsiRgb :
        \A other \in DOMAIN AnsiRgb :
            \/ Distance(AnsiRgb[k], PaletteRgb(i)) < Distance(AnsiRgb[other], PaletteRgb(i))
            \/ /\ Distance(AnsiRgb[k], PaletteRgb(i)) = Distance(AnsiRgb[other], PaletteRgb(i))
               /\ k <= other

\* C30: for a PaletteIndex(i) or TrueColorWithPaletteFallback(_, i) colour
\* with i >= 16, to_attr_word yields the nibble of the nearest of the sixteen
\* colours to colour i (a red index yields a red nibble), not one colour
\* whatever i is.
C30_NearestApproximation ==
    LET word == to_attr_word(current_attr)
        fg == current_attr.foreground
        bg == current_attr.background
    IN  /\ (HasIndex(fg) /\ fg.idx >= 16) =>
              ForegroundNibble(word) = Nibble(AnsiTable[NearestAnsi(fg.idx)])
        /\ (HasIndex(bg) /\ bg.idx >= 16) =>
              BackgroundNibble(word) = Nibble(AnsiTable[NearestAnsi(bg.idx)])

\* render_to has sent the word of a foreground PaletteIndex(196), the pure
\* red of the colour cube, on a background PaletteIndex(16): bright white on
\* black, the word of the default colours.
C30_WhiteForRed ==
    /\ Returned
    /\ current_attr.foreground = PaletteIndex(196)
    /\ PaletteRgb(196) = Crimson
    /\ AnsiTable[NearestAnsi(196)] = {"I", "R"}
    /\ current_attr.background = PaletteIndex(16)
    /\ ~current_attr.reverse
    /\ current_attr.underline = "None"
    /\ log = <<Flush, SetAttr(15)>>
    /\ to_attr_word(current_attr) = to_attr_word(DefaultAttributes)

\* The attributes that differ from attr in what the console cannot show only:
\* intensity, italic, strikethrough, blink, invisible, line drawing, hyperlink
SameToTheConsole(attr) ==
    {[attr EXCEPT !.intensity = i, !.italic = it, !.strikethrough = s,
                  !.blink = b, !.invisible = inv, !.line_drawing = ld,
                  !.hyperlink = h] :
        i \in {"Normal", "Bold", "Half"}, it \in BOOLEAN, s \in BOOLEAN,
        b \in BOOLEAN, inv \in BOOLEAN, ld \in BOOLEAN,
        h \in {None, Some(<<104>>)}}

\* C31: to_attr_word depends on foreground, background, reverse and underline
\* only: CellAttributes values that differ only in intensity, italic,
\* strikethrough, blink, invisible, line drawing or hyperlink have the same
\* word; the underscore bit is set exactly when underline is not None, Single
\* and Double giving the same word; and the reverse-video bit is set exactly
\* when reverse is.
C31_WordDependsOn ==
    LET word == to_attr_word(current_attr)
        plain == [current_attr EXCEPT !.reverse = FALSE, !.underline = "None"]
    IN  /\ \A other \in SameToTheConsole(current_attr) : to_attr_word(other) = word
        /\ to_attr_word([current_attr EXCEPT !.underline = "Single"])
              = to_attr_word([current_attr EXCEPT !.underline = "Double"])
        /\ word = to_attr_word(plain)
                  + (IF current_attr.reverse THEN 16384 ELSE 0)
                  + (IF current_attr.underline # "None" THEN 32768 ELSE 0)
        /\ to_attr_word(plain) < 16384
        /\ (Returned /\ failed = 0) =>
              log[Len(log)] = SetAttr(to_attr_word([DefaultAttributes EXCEPT
                                  !.foreground = current_attr.foreground,
                                  !.background = current_attr.background,
                                  !.reverse = current_attr.reverse,
                                  !.underline = current_attr.underline]))

\* render_to has sent the word of bold, italic, struck-through, blinking,
\* invisible, linked line-drawing text, navy on default and doubly
\* underlined: the word of plain navy text with the underscore bit.
C31_Witness ==
    /\ Returned
    /\ current_attr = [Decorated EXCEPT !.foreground = Navy, !.underline = "Double"]
    /\ log = <<Flush, SetAttr(32769)>>

----------------------------------------------------------------------------
(* Properties of the parser, continued *)

\* C32: in parse_first, when the first byte to emit dispatches several
\* actions, only the first is returned; the others are discarded for good and
\* the state machine has taken the whole byte.  The call leaves the state
\* machine where a parse call that delivered every action leaves it, the
\* length returned counts the byte, the Parser holds nothing but the state
\* machine into the next call, and every byte of a later parse, parse_first
\* or parse_first_as_vec call delivers what a single parse call over all the
\* bytes delivers for that byte, and nothing else.
C32_DiscardedForGood ==
    [][/\ (Stepped /\ call = "parse_first" /\ Len(emitted') > 1) =>
              /\ first = None
              /\ first' = Some(emitted'[1])
              /\ first_idx' = Some(idx)
              /\ idx' = idx + 1
              /\ sm' = ParseIter(sm, fedByte').sm
              /\ sm' = oneShot'
       /\ (call = "parse_first" /\ call' = "idle" /\ Len(emitted) > 1) =>
              /\ ret' = [of |-> "parse_first", some |-> TRUE,
                         action |-> emitted[1], n |-> idx]
              /\ sm' = sm
       /\ (call = "idle" /\ call' # "idle") =>
              /\ sm' = sm
              /\ first' = None
              /\ actions' = <<>>
              /\ emitted' = <<>>
       /\ Stepped =>
              /\ emitted' = ParseIter(sm, fedByte').out
              /\ emitted' = oneEmitted'
              /\ call = "parse_first" =>
                    first' = (IF emitted' = <<>> THEN None ELSE Some(emitted'[1]))
              /\ call = "parse_first_as_vec" => actions' = emitted']_vars

\* A parse_first call returned None inside a sequence; the next one returned
\* the first of the two different actions its second byte dispatched (a CAN
\* that cuts an OSC short gives the OSC and the Control) and left the state
\* machine in Ground.
C32_Witness ==
    /\ call = "idle"
    /\ ret.of = "parse_first"
    /\ hist = "pf_none"
    /\ resumed
    /\ ret.some
    /\ Len(emitted) = 2
    /\ ret.action = emitted[1]
    /\ emitted[2] # emitted[1]
    /\ ret.n = 2
    /\ sm = NewParser

----------------------------------------------------------------------------
(* Properties of the renderer, continued *)

\* C33: vertical cursor movement is constrained to the viewport: for every
\* BufferInfo and every CursorPosition change, the row passed to
\* set_cursor_position is at least srWindow.Top and at most srWindow.Bottom.
C33_RowInViewport ==
    [][(Processed /\ changes'[Len(changes')].change = "CursorPosition") =>
          \A i \in DOMAIN StepCalls :
              StepCalls[i].op = "set_cursor_position" =>
                  /\ StepCalls[i].y >= InfoAfterFlush.srWindow.Top
                  /\ StepCalls[i].y <= InfoAfterFlush.srWindow.Bottom]_vars

\* Two CursorPosition { x: NoChange, y: Relative(-1) } from the second row of
\* a viewport that starts at row 1: the second has put the cursor on row 0,
\* in the scrollback.
C33_CursorAboveViewport ==
    /\ rcall = "render"
    /\ Len(changes) = 2
    /\ changes[1] = [change |-> "CursorPosition", x |-> NoChange, y |-> Relative(-1)]
    /\ changes[2] = changes[1]
    /\ Len(log) = 6
    /\ log[3] = SetCursorPosition(1, 1)
    /\ log[6] = SetCursorPosition(1, 0)
    /\ failed = 0
    /\ console.srWindow.Top = 1
    /\ console.dwCursorPosition.Y = 0

----------------------------------------------------------------------------
(* Framing *)

RECURSIVE Sum(_)
Sum(lens) == IF lens = <<>> THEN 0 ELSE Head(lens) + Sum(Tail(lens))

\* C34: from a fresh Parser, parse_first_as_vec on the bytes, then on what
\* follows the consumed prefix, and so on until it returns None, yields
\* action lists whose concatenation is parse_as_vec(bytes) of a fresh Parser
\* and leaves the state machine as that parse_as_vec call leaves it; after
\* every call the actions so far, and the state machine, are those of
\* parse_as_vec on the bytes consumed so far; each length returned is between
\* 1 and the length of what remained, and together they are at most
\* len(bytes).
C34_FramingIsParsing ==
    ret.of = "framing" =>
        LET consumed == Sum(ret.lens)
            sofar == Parse(NewParser, IF ret.done THEN ret.bytes
                                      ELSE SubSeq(ret.bytes, 1, consumed))
        IN  /\ consumed <= Len(ret.bytes)
            /\ ret.rest = SubSeq(ret.bytes, consumed + 1, Len(ret.bytes))
            /\ ret.out = sofar.out
            /\ sm = sofar.sm
            /\ \A k \in DOMAIN ret.lens :
                  /\ ret.lens[k] >= 1
                  /\ ret.lens[k] <= Len(ret.bytes) - Sum(SubSeq(ret.lens, 1, k - 1))

\* The input ESC P m 1 CAN m has been framed by four parse_first_as_vec calls
\* that returned actions, with the lengths 3, 1, 1 and 1, and a fifth, on the
\* empty rest, that returned None.
C34_Witness ==
    /\ ret.of = "framing"
    /\ ret.done
    /\ ret.bytes = <<ESC, 80, 109, 49, CAN, 109>>
    /\ ret.lens = <<3, 1, 1, 1>>
    /\ Len(ret.out) > 4
    /\ ret.out[Len(ret.out)] = PrintOf(109)
    /\ sm = NewParser

\* The cursor get_buffer_info reports lies inside the screen buffer.
CursorInside(info) ==
    /\ info.dwCursorPosition.X \in 0..(info.dwSize.X - 1)
    /\ info.dwCursorPosition.Y \in 0..(info.dwSize.Y - 1)

\* C35: every fill_char and fill_attr call of ClearScreen, ClearToEndOfLine,
\* ClearToEndOfScreen and Image starts at a coordinate inside the screen
\* buffer (0 <= x < dwSize.X and 0 <= y < dwSize.Y) and covers no cell past
\* the end of the buffer, for every cursor position inside the buffer, the
\* last row of the buffer included.
C35_FillsInsideBuffer ==
    [][(/\ Processed
        /\ changes'[Len(changes')].change \in ClearKinds \cup {"Image"}
        /\ CursorInside(InfoAfterFlush)) =>
          \A i \in DOMAIN StepCalls :
              StepCalls[i].op \in {"fill_char", "fill_attr"} =>
                  /\ StepCalls[i].x \in 0..(InfoAfterFlush.dwSize.X - 1)
                  /\ StepCalls[i].y \in 0..(InfoAfterFlush.dwSize.Y - 1)
                  /\ \A n \in FilledCells(StepCalls[i], InfoAfterFlush) :
                        n < InfoAfterFlush.dwSize.X * InfoAfterFlush.dwSize.Y]_vars

\* ClearToEndOfScreen with the cursor on the last row of a buffer of three
\* rows: its second pair of fills starts at row 3, below the buffer.
C35_FillBelowBuffer ==
    /\ rcall = "render"
    /\ Len(changes) = 1
    /\ changes[1].change = "ClearToEndOfScreen"
    /\ console.dwSize.Y = 3
    /\ console.dwCursorPosition = [X |-> 3, Y |-> 2]
    /\ Len(log) = 6
    /\ log[3] = FillChar(SPACE, 3, 2, 1)
    /\ log[5] = FillChar(SPACE, 0, 3, 0)
    /\ log[6].op = "fill_attr"
    /\ log[6].y = 3

----------------------------------------------------------------------------
(* Two calls and one *)

\* render_to(a) and render_to(b) have run, one after the other, in this step
\* and both returned Ok(()).
RenderedTwice == rcall = "idle" /\ result = "none" /\ result' = "ok" /\ failed' = 0

====
